---- MODULE Spec2Model ----
(***************************************************************************)
(* A model of the tool layer of the A-share MCP server: the invocation     *)
(* pipeline helpers of src/tools/base.py, the trading-calendar tools of    *)
(* src/tools/date_utils.py, the index and market tools, the ETF tools and  *)
(* the ETF provider.                                                       *)
(*                                                                         *)
(* A Python string is modelled as the sequence of the pieces it is the     *)
(* concatenation of: an f-string is the sequence of its literal pieces and *)
(* of the values interpolated into it.  The literal "Error: " is always a  *)
(* piece of its own, so that "starts with 'Error: '" is the test           *)
(* s[1] = "Error: ".  A string whose characters matter (a year, an ISO     *)
(* date) is the sequence of its characters, each a one-character string.   *)
(***************************************************************************)
EXTENDS Integers, Sequences, FiniteSets, TLC

VARIABLES
    now,      \* datetime.now(): the date of the clock, [year, month, day]
    op,       \* the tool operation invoked last ("none" before the first)
    args,     \* its arguments
    cal,      \* the provider's trading calendar at the call: the ordinals of the trading days
    calls,    \* the data-source invocations it made, in order: [method, kwargs]
    resp,     \* what the data source (and the renderer) answered, in order
    result,   \* the string it returned
    log,      \* the log records it wrote, in order: [level, exc_info]
    inflight  \* the frames of the invocations running at the same time, by worker

vars == <<now, op, args, cal, calls, resp, result, log, inflight>>

-----------------------------------------------------------------------------
(* Bounds of the model. *)

MaxYearLen == 5     \* year strings of 0..MaxYearLen characters
MaxQuarter == 5     \* quarters -1..MaxQuarter
MaxRows == 3        \* a returned table has 0..MaxRows rows

-----------------------------------------------------------------------------
(* Strings. *)

None == "None"      \* Python's None, for Optional[str] arguments

\* The decimal digits, in order: Digits[n + 1] is the character of the digit n.
Digits == <<"0", "1", "2", "3", "4", "5", "6", "7", "8", "9">>

DigitChars == {Digits[i] : i \in 1..10}

\* The characters the year strings are made of.
YearChars == {"2", "x"}

\* Every string of length n over the characters cs.
StringsOfLen(cs, n) == [1..n -> cs]

StringsUpTo(cs, n) == UNION {StringsOfLen(cs, k) : k \in 0..n}

\* str.isdigit(): at least one character, and every character a digit.
isdigit(s) == Len(s) > 0 /\ \A i \in 1..Len(s) : s[i] \in DigitChars

\* The test a caller makes on a returned string.
StartsWithError(s) == Len(s) > 0 /\ s[1] = "Error: "

-----------------------------------------------------------------------------
(* Exceptions: [cls, msg].  str(e) is e.msg, a string. *)

Messages == {<<"m1">>, <<"m2">>}

\* The classes the data source and the renderer can raise, each with its
\* base classes up to Exception (itself included).
Mro(cls) ==
    CASE cls = "NoDataFoundError" -> {"NoDataFoundError", "DataSourceError", "Exception"}
      [] cls = "LoginError"       -> {"LoginError", "DataSourceError", "Exception"}
      [] cls = "DataSourceError"  -> {"DataSourceError", "Exception"}
      [] cls = "ValueError"       -> {"ValueError", "Exception"}
      [] cls = "UnicodeError"     -> {"UnicodeError", "ValueError", "Exception"}
      [] cls = "KeyError"         -> {"KeyError", "LookupError", "Exception"}
      [] cls = "RuntimeError"     -> {"RuntimeError", "Exception"}
      [] cls = "AttributeError"   -> {"AttributeError", "Exception"}

ExceptionClasses ==
    {"NoDataFoundError", "LoginError", "DataSourceError", "ValueError",
     "UnicodeError", "KeyError", "RuntimeError"}

Exceptions == [cls : ExceptionClasses, msg : Messages]

isinstance(e, cls) == cls \in Mro(e.cls)

\* An exception no except clause of the pipeline names.
Unclassified(e) == ~isinstance(e, "DataSourceError") /\ ~isinstance(e, "ValueError")

Raise(e) == [kind |-> "raise", exc |-> e]
Return(v) == [kind |-> "return", value |-> v]

\* A record that never carries the traceback: logger.error for logger.exception.
LogRec_without_traceback(level, exc_info) == [level |-> level, exc_info |-> FALSE]

\* A log record: its level and whether the traceback goes with it.
LogRec(level, exc_info) == [level |-> level, exc_info |-> exc_info]

\* An exception no except clause catches leaves the operation: the caller
\* gets no string but the raised exception.
Propagate(e) == [ret |-> <<"Traceback: ", e.cls>> \o e.msg, log |-> LogRec("NONE", FALSE)]

Raised(s) == Len(s) > 0 /\ s[1] = "Traceback: "

-----------------------------------------------------------------------------
(* The table renderer, format_table_output(df, format, max_rows, meta). *)

Formats == {"markdown", "json", "csv"}

Min(a, b) == IF a <= b THEN a ELSE b

\* A table of n rows rendered with at most max_rows of them, the total shown;
\* an unknown format token is an InvalidInput.
format_table_output(n, format, max_rows, meta) ==
    IF format \notin Formats
    THEN Raise([cls |-> "ValueError", msg |-> <<"Unsupported format: ", format>>])
    ELSE Return(<<"table:", format, ToString(Min(n, max_rows)), "/", ToString(n)>> \o meta)

IsTable(s) == Len(s) > 0 /\ s[1] = "table:"

\* limit: int = 250, the cap when none is given
DefaultLimit == 250

-----------------------------------------------------------------------------
(* What a bound data-source operation can do when it is called. *)

DataFrames == [kind : {"df"}, nrows : 0..MaxRows]

MethodOutcomes == DataFrames \cup {Raise(e) : e \in Exceptions}

\* A fault of the renderer besides the unknown format, or none.
NoFault == [cls |-> "none", msg |-> <<>>]

RenderFaults == {NoFault, [cls |-> "KeyError", msg |-> <<"m1">>]}

Render(out, fault, format, limit, meta) ==
    IF fault # NoFault THEN Raise(fault)
    ELSE format_table_output(out.nrows, format, limit, meta)

-----------------------------------------------------------------------------
(* The state an invocation leaves: the operation, its arguments and what it
   did, r = [ret, calls, resp, log]. *)

Finish(name, a, r) ==
    /\ op = "none"
    /\ op' = name
    /\ args' = a
    /\ result' = r.ret
    /\ calls' = r.calls
    /\ resp' = r.resp
    /\ log' = r.log
    /\ UNCHANGED <<now, cal, inflight>>

\* logger.info(...) at the start of a tool.
LogStart == <<LogRec("INFO", FALSE)>>

-----------------------------------------------------------------------------
(* src/tools/base.py: call_financial_data_tool *)

\* The except clauses with the DataSourceError clause ahead of its subclasses'.
call_financial_data_tool_except_reordered(e) ==
    IF isinstance(e, "DataSourceError")
    THEN [ret |-> <<"Error: ", "An error occurred while fetching data. ">> \o e.msg,
          log |-> LogRec("ERROR", FALSE)]
    ELSE IF isinstance(e, "ValueError")
    THEN [ret |-> <<"Error: ", "Invalid input parameter. ">> \o e.msg,
          log |-> LogRec("WARNING", FALSE)]
    ELSE [ret |-> <<"Error: ", "An unexpected error occurred: ">> \o e.msg,
          log |-> LogRec("ERROR", TRUE)]

\* The except clauses, in their order: the first whose class the exception
\* is an instance of.
call_financial_data_tool_except(e) ==
    IF isinstance(e, "NoDataFoundError")
    THEN [ret |-> <<"Error: ">> \o e.msg, log |-> LogRec("WARNING", FALSE)]
    ELSE IF isinstance(e, "LoginError")
    THEN [ret |-> <<"Error: ", "Could not connect to data source. ">> \o e.msg,
          log |-> LogRec("ERROR", FALSE)]
    ELSE IF isinstance(e, "DataSourceError")
    THEN [ret |-> <<"Error: ", "An error occurred while fetching data. ">> \o e.msg,
          log |-> LogRec("ERROR", FALSE)]
    ELSE IF isinstance(e, "ValueError")
    THEN [ret |-> <<"Error: ", "Invalid input parameter. ">> \o e.msg,
          log |-> LogRec("WARNING", FALSE)]
    ELSE IF isinstance(e, "Exception")
    THEN [ret |-> <<"Error: ", "An unexpected error occurred: ">> \o e.msg,
          log |-> LogRec("ERROR", TRUE)]
    ELSE Propagate(e)

\* The validation of the year without the test of its length.
YearIsValid_no_length(year) == isdigit(year)

\* The basic validation of the year and of the quarter.
YearIsValid(year) == isdigit(year) /\ Len(year) = 4

QuarterIsValid(quarter) == 1 <= quarter /\ quarter <= 4

\* out is what data_source_method does when called, fault what the renderer does.
call_financial_data_tool_run(data_source_method, data_type_name, code, year, quarter, limit, format, out, fault) ==
    LET call == [method |-> data_source_method,
                 kwargs |-> [code |-> code, year |-> year, quarter |-> quarter]]
        meta == <<code>> \o year \o <<ToString(quarter), data_type_name>>
        rendered == Render(out, fault, format, limit, meta)
    IN  IF ~YearIsValid(year)
        THEN [ret |-> <<"Error: ", "Invalid year '">> \o year
                          \o <<"'. Please provide a 4-digit year.">>,
              calls |-> <<>>, resp |-> <<>>,
              log |-> LogStart \o <<LogRec("WARNING", FALSE)>>]
        ELSE IF ~QuarterIsValid(quarter)
        THEN [ret |-> <<"Error: ", "Invalid quarter '", ToString(quarter),
                        "'. Must be between 1 and 4.">>,
              calls |-> <<>>, resp |-> <<>>,
              log |-> LogStart \o <<LogRec("WARNING", FALSE)>>]
        ELSE IF out.kind = "raise"
        THEN [ret |-> call_financial_data_tool_except(out.exc).ret,
              calls |-> <<call>>, resp |-> <<out>>,
              log |-> LogStart \o <<call_financial_data_tool_except(out.exc).log>>]
        ELSE IF rendered.kind = "raise"
        THEN [ret |-> call_financial_data_tool_except(rendered.exc).ret,
              calls |-> <<call>>, resp |-> <<out, rendered>>,
              log |-> LogStart \o <<LogRec("INFO", FALSE),
                                    call_financial_data_tool_except(rendered.exc).log>>]
        ELSE [ret |-> rendered.value,
              calls |-> <<call>>, resp |-> <<out, rendered>>,
              log |-> LogStart \o <<LogRec("INFO", FALSE)>>]

call_financial_data_tool(tool_name, data_source_method, data_type_name, code, year, quarter, limit, format, out, fault) ==
    Finish("call_financial_data_tool",
           [tool_name |-> tool_name, data_source_method |-> data_source_method,
            code |-> code, year |-> year, quarter |-> quarter,
            limit |-> limit, format |-> format],
           call_financial_data_tool_run(data_source_method, data_type_name, code, year,
                                        quarter, limit, format, out, fault))

-----------------------------------------------------------------------------
(* src/tools/base.py: call_macro_data_tool *)

\* The except clauses without the last one, except Exception.
call_macro_data_tool_except_no_catch_all(e) ==
    IF isinstance(e, "NoDataFoundError")
    THEN [ret |-> <<"Error: ">> \o e.msg, log |-> LogRec("WARNING", FALSE)]
    ELSE IF isinstance(e, "LoginError")
    THEN [ret |-> <<"Error: ", "Could not connect to data source. ">> \o e.msg,
          log |-> LogRec("ERROR", FALSE)]
    ELSE IF isinstance(e, "DataSourceError")
    THEN [ret |-> <<"Error: ", "An error occurred while fetching data. ">> \o e.msg,
          log |-> LogRec("ERROR", FALSE)]
    ELSE IF isinstance(e, "ValueError")
    THEN [ret |-> <<"Error: ", "Invalid input parameter. ">> \o e.msg,
          log |-> LogRec("WARNING", FALSE)]
    ELSE Propagate(e)

call_macro_data_tool_except(e) ==
    IF isinstance(e, "NoDataFoundError")
    THEN [ret |-> <<"Error: ">> \o e.msg, log |-> LogRec("WARNING", FALSE)]
    ELSE IF isinstance(e, "LoginError")
    THEN [ret |-> <<"Error: ", "Could not connect to data source. ">> \o e.msg,
          log |-> LogRec("ERROR", FALSE)]
    ELSE IF isinstance(e, "DataSourceError")
    THEN [ret |-> <<"Error: ", "An error occurred while fetching data. ">> \o e.msg,
          log |-> LogRec("ERROR", FALSE)]
    ELSE IF isinstance(e, "ValueError")
    THEN [ret |-> <<"Error: ", "Invalid input parameter. ">> \o e.msg,
          log |-> LogRec("WARNING", FALSE)]
    ELSE IF isinstance(e, "Exception")
    THEN [ret |-> <<"Error: ", "An unexpected error occurred: ">> \o e.msg,
          log |-> LogRec("ERROR", TRUE)]
    ELSE Propagate(e)

\* kwargs is the sequence of the extra keyword arguments, <<name, value>> each.
call_macro_data_tool_run(data_source_method, data_type_name, start_date, end_date, kwargs, limit, format, out, fault) ==
    LET call == [method |-> data_source_method,
                 kwargs |-> [start_date |-> start_date, end_date |-> end_date,
                             extra |-> kwargs]]
        meta == <<data_type_name, start_date, end_date>>
                    \o (IF kwargs # <<>> THEN <<"extra">> ELSE <<>>)
        rendered == Render(out, fault, format, limit, meta)
    IN  IF out.kind = "raise"
        THEN [ret |-> call_macro_data_tool_except(out.exc).ret,
              calls |-> <<call>>, resp |-> <<out>>,
              log |-> LogStart \o <<call_macro_data_tool_except(out.exc).log>>]
        ELSE IF rendered.kind = "raise"
        THEN [ret |-> call_macro_data_tool_except(rendered.exc).ret,
              calls |-> <<call>>, resp |-> <<out, rendered>>,
              log |-> LogStart \o <<LogRec("INFO", FALSE),
                                    call_macro_data_tool_except(rendered.exc).log>>]
        ELSE [ret |-> rendered.value,
              calls |-> <<call>>, resp |-> <<out, rendered>>,
              log |-> LogStart \o <<LogRec("INFO", FALSE)>>]

call_macro_data_tool(tool_name, data_source_method, data_type_name, start_date, end_date, kwargs, limit, format, out, fault) ==
    Finish("call_macro_data_tool",
           [tool_name |-> tool_name, data_source_method |-> data_source_method,
            start_date |-> start_date, end_date |-> end_date, kwargs |-> kwargs,
            limit |-> limit, format |-> format],
           call_macro_data_tool_run(data_source_method, data_type_name, start_date,
                                    end_date, kwargs, limit, format, out, fault))

-----------------------------------------------------------------------------
(* src/tools/base.py: call_index_constituent_tool *)

\* The except clauses with the last one formatting repr(e) instead of str(e).
call_index_constituent_tool_except_repr(e) ==
    IF isinstance(e, "NoDataFoundError")
    THEN [ret |-> <<"Error: ">> \o e.msg, log |-> LogRec("WARNING", FALSE)]
    ELSE IF isinstance(e, "LoginError")
    THEN [ret |-> <<"Error: ", "Could not connect to data source. ">> \o e.msg,
          log |-> LogRec("ERROR", FALSE)]
    ELSE IF isinstance(e, "DataSourceError")
    THEN [ret |-> <<"Error: ", "An error occurred while fetching data. ">> \o e.msg,
          log |-> LogRec("ERROR", FALSE)]
    ELSE IF isinstance(e, "ValueError")
    THEN [ret |-> <<"Error: ", "Invalid input parameter. ">> \o e.msg,
          log |-> LogRec("WARNING", FALSE)]
    ELSE [ret |-> <<"Error: ", "An unexpected error occurred: ", e.cls, "(">> \o e.msg \o <<")">>,
          log |-> LogRec("ERROR", TRUE)]

call_index_constituent_tool_except(e) ==
    IF isinstance(e, "NoDataFoundError")
    THEN [ret |-> <<"Error: ">> \o e.msg, log |-> LogRec("WARNING", FALSE)]
    ELSE IF isinstance(e, "LoginError")
    THEN [ret |-> <<"Error: ", "Could not connect to data source. ">> \o e.msg,
          log |-> LogRec("ERROR", FALSE)]
    ELSE IF isinstance(e, "DataSourceError")
    THEN [ret |-> <<"Error: ", "An error occurred while fetching data. ">> \o e.msg,
          log |-> LogRec("ERROR", FALSE)]
    ELSE IF isinstance(e, "ValueError")
    THEN [ret |-> <<"Error: ", "Invalid input parameter. ">> \o e.msg,
          log |-> LogRec("WARNING", FALSE)]
    ELSE IF isinstance(e, "Exception")
    THEN [ret |-> <<"Error: ", "An unexpected error occurred: ">> \o e.msg,
          log |-> LogRec("ERROR", TRUE)]
    ELSE Propagate(e)

call_index_constituent_tool_run(data_source_method, index_name, date, limit, format, out, fault) ==
    LET call == [method |-> data_source_method, kwargs |-> [date |-> date]]
        meta == <<index_name, IF date # None THEN date ELSE "latest">>
        rendered == Render(out, fault, format, limit, meta)
    IN  IF out.kind = "raise"
        THEN [ret |-> call_index_constituent_tool_except(out.exc).ret,
              calls |-> <<call>>, resp |-> <<out>>,
              log |-> LogStart \o <<call_index_constituent_tool_except(out.exc).log>>]
        ELSE IF rendered.kind = "raise"
        THEN [ret |-> call_index_constituent_tool_except(rendered.exc).ret,
              calls |-> <<call>>, resp |-> <<out, rendered>>,
              log |-> LogStart \o <<LogRec("INFO", FALSE),
                                    call_index_constituent_tool_except(rendered.exc).log>>]
        ELSE [ret |-> rendered.value,
              calls |-> <<call>>, resp |-> <<out, rendered>>,
              log |-> LogStart \o <<LogRec("INFO", FALSE)>>]

call_index_constituent_tool(tool_name, data_source_method, index_name, date, limit, format, out, fault) ==
    Finish("call_index_constituent_tool",
           [tool_name |-> tool_name, data_source_method |-> data_source_method,
            date |-> date, limit |-> limit, format |-> format],
           call_index_constituent_tool_run(data_source_method, index_name, date,
                                           limit, format, out, fault))

-----------------------------------------------------------------------------
(* src/akshare_etf_data_source.py and src/tools/etf_market.py: the ETF basic
   information.  The Chinese literals are written by their code points or
   glossed in English between angle brackets. *)

ErrorZh == "<U+9519><U+8BEF>: "

\* What the AKShare call ak.fund_etf_spot_em() can do: a table, of which
\* nrows rows carry the code asked for, or an exception of its own.
AkExceptions == [cls : {"KeyError", "RuntimeError", "ValueError"}, msg : Messages]

AkOutcomes == DataFrames \cup {Raise(e) : e \in AkExceptions}

AKShareETFDataSource_get_etf_basic_info(etf_code, ak) ==
    IF ak.kind = "raise"
    THEN IF isinstance(ak.exc, "NoDataFoundError")
         THEN ak
         ELSE Raise([cls |-> "DataSourceError",
                     msg |-> <<"<fetching the ETF basic info failed>: ">> \o ak.exc.msg])
    ELSE IF ak.nrows = 0
    THEN Raise([cls |-> "NoDataFoundError",
                msg |-> <<"<no basic info found for ETF code> ", etf_code>>])
    ELSE ak

\* format_df_to_markdown(df): the Markdown rendering with the default cap.
format_df_to_markdown(n) == format_table_output(n, "markdown", DefaultLimit, <<>>)

get_etf_basic_info_except(e) ==
    IF isinstance(e, "NoDataFoundError")
    THEN [ret |-> <<ErrorZh>> \o e.msg, log |-> LogRec("WARNING", FALSE)]
    ELSE IF isinstance(e, "LoginError")
    THEN [ret |-> <<ErrorZh, "<could not connect to the data source>. ">> \o e.msg,
          log |-> LogRec("ERROR", FALSE)]
    ELSE IF isinstance(e, "DataSourceError")
    THEN [ret |-> <<ErrorZh, "<an error occurred while fetching data>. ">> \o e.msg,
          log |-> LogRec("ERROR", FALSE)]
    ELSE IF isinstance(e, "Exception")
    THEN [ret |-> <<ErrorZh, "<an unexpected error occurred>: ">> \o e.msg,
          log |-> LogRec("ERROR", TRUE)]
    ELSE Propagate(e)

get_etf_basic_info_run(etf_code, ak) ==
    LET call == [method |-> "get_etf_basic_info", kwargs |-> [etf_code |-> etf_code]]
        out == AKShareETFDataSource_get_etf_basic_info(etf_code, ak)
    IN  IF out.kind = "raise"
        THEN [ret |-> get_etf_basic_info_except(out.exc).ret,
              calls |-> <<call>>, resp |-> <<out>>,
              log |-> LogStart \o <<get_etf_basic_info_except(out.exc).log>>]
        ELSE [ret |-> format_df_to_markdown(out.nrows).value,
              calls |-> <<call>>, resp |-> <<out, format_df_to_markdown(out.nrows)>>,
              log |-> LogStart \o <<LogRec("INFO", FALSE)>>]

get_etf_basic_info(etf_code, ak) ==
    Finish("get_etf_basic_info", [etf_code |-> etf_code], get_etf_basic_info_run(etf_code, ak))

-----------------------------------------------------------------------------
(* The specification of the tools that call a data source and render. *)

BaseDate == [year |-> 2024, month |-> 1, day |-> 20]

InitIdle ==
    /\ op = "none"
    /\ args = <<>>
    /\ cal = {}
    /\ calls = <<>>
    /\ resp = <<>>
    /\ result = <<>>
    /\ log = <<>>
    /\ inflight = <<>>

Init == now = BaseDate /\ InitIdle

\* The string is handed to the transport and the server awaits the next call.
Respond ==
    /\ op # "none"
    /\ op' = "none"
    /\ args' = <<>>
    /\ cal' = {}
    /\ calls' = <<>>
    /\ resp' = <<>>
    /\ result' = <<>>
    /\ log' = <<>>
    /\ UNCHANGED <<now, inflight>>

Codes == {"sh.600000"}
EtfCodes == {"159919", "510300"}
Limits == {2, 250}
FormatTokens == {"markdown", "json", "xml"}
FinancialMethods == {"get_profit_data", "get_balance_data"}
MacroMethods == {"get_deposit_rate_data", "get_money_supply_data_year"}
IndexMethods == {"get_sz50_stocks", "get_hs300_stocks", "get_zz500_stocks"}
DateArgs == {None, "2024-12-31"}
ExtraArgs == {<<>>, <<<<"year_type", "report">>>>}

\* A tool is invoked when the server is idle; its inputs are drawn here.
Idle == op = "none"

Financial ==
    Idle /\ \E m \in FinancialMethods, code \in Codes,
               year \in StringsUpTo(YearChars, MaxYearLen), quarter \in -1..MaxQuarter,
               limit \in Limits, format \in FormatTokens,
               out \in MethodOutcomes, fault \in RenderFaults :
                 call_financial_data_tool(m, m, "Profitability", code, year, quarter,
                                          limit, format, out, fault)

Macro ==
    Idle /\ \E m \in MacroMethods, start_date \in DateArgs, end_date \in DateArgs,
               kwargs \in ExtraArgs, limit \in Limits, format \in FormatTokens,
               out \in MethodOutcomes, fault \in RenderFaults :
                 call_macro_data_tool(m, m, "Deposit Rate", start_date, end_date,
                                      kwargs, limit, format, out, fault)

IndexConstituent ==
    Idle /\ \E m \in IndexMethods, date \in DateArgs,
               limit \in Limits, format \in FormatTokens,
               out \in MethodOutcomes, fault \in RenderFaults :
                 call_index_constituent_tool(m, m, "CSI 300", date, limit, format, out, fault)

EtfBasicInfo ==
    Idle /\ \E etf_code \in EtfCodes, ak \in AkOutcomes : get_etf_basic_info(etf_code, ak)

Next == Financial \/ Macro \/ IndexConstituent \/ EtfBasicInfo \/ Respond

Spec == Init /\ [][Next]_vars

-----------------------------------------------------------------------------
(* The claims about the invocation pipeline. *)

PipelineHelpers ==
    {"call_financial_data_tool", "call_macro_data_tool", "call_index_constituent_tool"}

\* The last answer the invocation got is an exception.
EndedInRaise == resp # <<>> /\ resp[Len(resp)].kind = "raise"

LastExc == resp[Len(resp)].exc

IsFourDigitNumeral(s) == Len(s) = 4 /\ \A i \in 1..4 : s[i] \in DigitChars

\* C1: call_financial_data_tool invokes the bound data-source operation exactly
\* once, with exactly the code, year and quarter given, when the year is a
\* 4-digit numeral and the quarter is in 1..4; for every other year or quarter it
\* returns an 'Error: Invalid ...' string and invokes nothing.
C1_FinancialValidation ==
    op = "call_financial_data_tool" =>
        IF IsFourDigitNumeral(args.year) /\ args.quarter \in 1..4
        THEN calls = <<[method |-> args.data_source_method,
                        kwargs |-> [code |-> args.code, year |-> args.year,
                                    quarter |-> args.quarter]]>>
        ELSE /\ calls = <<>>
             /\ StartsWithError(result)
             /\ result[2] \in {"Invalid year '", "Invalid quarter '"}

C1_Witness ==
    /\ op = "call_financial_data_tool"
    /\ args.year = <<"2", "2", "2", "2">>
    /\ args.quarter = 4
    /\ Len(calls) = 1

\* C2: the three pipeline helpers never raise: whatever the data source or the
\* renderer does, the helper returns the rendered table or a string that starts
\* with 'Error: '.
C2_HelpersNeverRaise ==
    op \in PipelineHelpers =>
        /\ ~Raised(result)
        /\ \/ StartsWithError(result)
           \/ /\ resp # <<>>
              /\ resp[Len(resp)].kind = "return"
              /\ result = resp[Len(resp)].value

C2_Witness ==
    /\ op = "call_macro_data_tool"
    /\ EndedInRaise
    /\ LastExc.cls = "RuntimeError"
    /\ StartsWithError(result)

\* The invocation ended in a failure: a validation refused the arguments before
\* any call, or the data source or the renderer raised.
EndsInFailure == op # "none" /\ (calls = <<>> \/ EndedInRaise)

\* C3: every tool operation that ends in a failure returns a string that begins
\* with 'Error: '.
C3_FailurePrefix == EndsInFailure => StartsWithError(result)

\* The message class of each failure kind, by the class of the exception.
ExpectedMessage(e) ==
    CASE e.cls = "NoDataFoundError" -> <<"Error: ">> \o e.msg
      [] e.cls = "LoginError" ->
            <<"Error: ", "Could not connect to data source. ">> \o e.msg
      [] e.cls = "DataSourceError" ->
            <<"Error: ", "An error occurred while fetching data. ">> \o e.msg
      [] e.cls \in {"ValueError", "UnicodeError"} ->
            <<"Error: ", "Invalid input parameter. ">> \o e.msg
      [] OTHER -> <<"Error: ", "An unexpected error occurred: ">> \o e.msg

\* C4: in the pipeline helpers each failure kind maps to one message class,
\* chosen by the most specific kind; a NotFound or an AuthFailure is never
\* reported with the generic SourceFailure message.
C4_FailureMapping ==
    (op \in PipelineHelpers /\ EndedInRaise) => result = ExpectedMessage(LastExc)

C4_Witness ==
    /\ op = "call_financial_data_tool"
    /\ EndedInRaise
    /\ LastExc.cls = "NoDataFoundError"
    /\ result = <<"Error: ">> \o LastExc.msg

\* C5, as stated: on an unclassified exception the returned string carries
\* nothing of the exception's own message.
C5_NoExceptionDetail ==
    (op \in PipelineHelpers /\ EndedInRaise /\ Unclassified(LastExc)) =>
        \A i \in 1..Len(result), j \in 1..Len(LastExc.msg) : result[i] # LastExc.msg[j]

\* C5, amended: on an unclassified exception the returned string is the fixed
\* text 'Error: An unexpected error occurred: ' followed by the exception's
\* message text and nothing else of the exception.
C5_UnexpectedCarriesMessageOnly ==
    (op \in PipelineHelpers /\ EndedInRaise /\ Unclassified(LastExc)) =>
        result = <<"Error: ", "An unexpected error occurred: ">> \o LastExc.msg

C5_Witness ==
    /\ op = "call_index_constituent_tool"
    /\ EndedInRaise
    /\ LastExc.cls = "KeyError"
    /\ calls # <<>>
    /\ result = <<"Error: ", "An unexpected error occurred: ", "m2">>

-----------------------------------------------------------------------------
(* Dates: datetime's calendar arithmetic, strftime and strptime with the
   format "%Y-%m-%d", and the comparison of strings. *)

WindowDays == 30    \* timedelta(days=30)
SafeDay == 28       \* replace(day=28)

IsLeap(y) == y % 4 = 0 /\ (y % 100 # 0 \/ y % 400 = 0)

DaysInMonth(y, m) ==
    IF m = 2 THEN (IF IsLeap(y) THEN 29 ELSE 28)
    ELSE IF m \in {4, 6, 9, 11} THEN 30 ELSE 31

DaysBeforeYear(y) == (y - 1) * 365 + (y - 1) \div 4 - (y - 1) \div 100 + (y - 1) \div 400

RECURSIVE DaysBeforeMonth(_, _)
DaysBeforeMonth(y, m) == IF m = 1 THEN 0 ELSE DaysBeforeMonth(y, m - 1) + DaysInMonth(y, m - 1)

Date(y, m, d) == [year |-> y, month |-> m, day |-> d]

\* date.toordinal(): the day number, 0001-01-01 being day 1.
toordinal(d) == DaysBeforeYear(d.year) + DaysBeforeMonth(d.year, d.month) + d.day

RECURSIVE MonthOfDay(_, _, _)
MonthOfDay(y, m, n) ==
    IF n <= DaysInMonth(y, m) THEN Date(y, m, n) ELSE MonthOfDay(y, m + 1, n - DaysInMonth(y, m))

\* date.fromordinal(n)
fromordinal(n) ==
    LET n0 == n - 1
        n400 == n0 \div 146097
        r400 == n0 % 146097
        n100 == r400 \div 36524
        r100 == r400 % 36524
        n4 == r100 \div 1461
        r4 == r100 % 1461
        n1 == r4 \div 365
        r1 == r4 % 365
        year == n400 * 400 + 1 + n100 * 100 + n4 * 4 + n1
    IN  IF n1 = 4 \/ n100 = 4 THEN Date(year - 1, 12, 31)
        ELSE MonthOfDay(year, 1, r1 + 1)

\* d + timedelta(days=k)
AddDays(d, k) == fromordinal(toordinal(d) + k)

\* The decimal numeral of n in w digits, zero-padded.
RECURSIVE Numeral(_, _)
Numeral(n, w) == IF w = 0 THEN <<>> ELSE Numeral(n \div 10, w - 1) \o <<Digits[(n % 10) + 1]>>

\* d.strftime("%Y-%m-%d")
strftime(d) == Numeral(d.year, 4) \o <<"-">> \o Numeral(d.month, 2) \o <<"-">> \o Numeral(d.day, 2)

DigitVal(c) == CHOOSE k \in 0..9 : Digits[k + 1] = c

RECURSIVE NumeralVal(_)
NumeralVal(s) == IF s = <<>> THEN 0 ELSE NumeralVal(SubSeq(s, 1, Len(s) - 1)) * 10 + DigitVal(s[Len(s)])

\* The shape YYYY-MM-DD.
IsIsoShape(s) ==
    /\ Len(s) = 10
    /\ s[5] = "-" /\ s[8] = "-"
    /\ \A i \in {1, 2, 3, 4, 6, 7, 9, 10} : s[i] \in DigitChars

IsoYear(s) == NumeralVal(SubSeq(s, 1, 4))
IsoMonth(s) == NumeralVal(SubSeq(s, 6, 7))
IsoDay(s) == NumeralVal(SubSeq(s, 9, 10))

\* datetime.strptime(s, "%Y-%m-%d") for the strings of ten characters and the
\* others that do not match: the zero-padded YYYY-MM-DD parse when they name a
\* day of the calendar; a month or a day the pattern does not match, a second
\* digit of the day it leaves over, a year 0 and a day the month does not have
\* raise ValueError. (The shorter strings the pattern matches too, of months
\* and days of one digit, are not drawn.)
strptime(s) ==
    LET nomatch == Raise([cls |-> "ValueError",
                          msg |-> <<"time data '">> \o s \o <<"' does not match format '%Y-%m-%d'">>])
    IN  IF ~IsIsoShape(s) THEN nomatch
        ELSE IF IsoMonth(s) \notin 1..12 \/ IsoDay(s) = 0 THEN nomatch
        ELSE IF IsoDay(s) > 31
        THEN Raise([cls |-> "ValueError", msg |-> <<"unconverted data remains: ", s[10]>>])
        ELSE IF IsoYear(s) = 0
        THEN Raise([cls |-> "ValueError", msg |-> <<"year 0 is out of range">>])
        ELSE IF IsoDay(s) > DaysInMonth(IsoYear(s), IsoMonth(s))
        THEN Raise([cls |-> "ValueError", msg |-> <<"day is out of range for month">>])
        ELSE Return(Date(IsoYear(s), IsoMonth(s), IsoDay(s)))

\* The code point of a character of a date string.
Ord(c) == IF c = "-" THEN 45 ELSE IF c = "/" THEN 47 ELSE 48 + DigitVal(c)

\* a < b on Python strings: by the first character that differs, a proper
\* prefix being the smaller.
RECURSIVE StrLess(_, _)
StrLess(a, b) ==
    IF b = <<>> THEN FALSE
    ELSE IF a = <<>> THEN TRUE
    ELSE IF a[1] # b[1] THEN Ord(a[1]) < Ord(b[1])
    ELSE StrLess(Tail(a), Tail(b))

StrLe(a, b) == a = b \/ StrLess(a, b)

-----------------------------------------------------------------------------
(* The trading calendar of the data source, get_trade_dates(start_date,
   end_date): one entry (calendar_date, is_trading_day) for every day of the
   range asked for, is_trading_day being '1' or '0'. *)

StandardColumns == <<"calendar_date", "is_trading_day">>
OtherColumns == <<"date", "flag">>

\* Which way the rows come.
Orders == {"asc", "desc", "rotated"}

Arrange(rows, order) ==
    LET n == Len(rows)
    IN  IF order = "asc" THEN rows
        ELSE IF order = "desc" THEN [i \in 1..n |-> rows[n + 1 - i]]
        ELSE SubSeq(rows, n \div 2 + 1, n) \o SubSeq(rows, 1, n \div 2)

\* What the query can do besides answering: an answer without rows (with or
\* without columns), no answer at all, or an exception.
CalendarFaults ==
    {[kind |-> "df", columns |-> StandardColumns, rows |-> <<>>],
     [kind |-> "df", columns |-> <<>>, rows |-> <<>>],
     [kind |-> "none"],
     Raise([cls |-> "NoDataFoundError", msg |-> <<"m1">>]),
     Raise([cls |-> "LoginError", msg |-> <<"m2">>]),
     Raise([cls |-> "RuntimeError", msg |-> <<"m1">>])}

\* The answer for the calendar c (the ordinals of its trading days).
get_trade_dates(c, start_date, end_date, columns, order) ==
    LET first == toordinal(strptime(start_date).value)
        last == toordinal(strptime(end_date).value)
        rows == [i \in 1..(last - first + 1) |->
                    <<strftime(fromordinal(first + i - 1)),
                      IF (first + i - 1) \in c THEN "1" ELSE "0">>]
    IN  [kind |-> "df", columns |-> columns, rows |-> Arrange(rows, order)]

\* The position of a column of a table, 0 when it has no such column.
ColumnIndex(columns, name) ==
    IF \E i \in 1..Len(columns) : columns[i] = name
    THEN CHOOSE i \in 1..Len(columns) : columns[i] = name
    ELSE 0

\* df.empty
IsEmpty(df) == df.columns = <<>> \/ df.rows = <<>>

-----------------------------------------------------------------------------
(* src/tools/date_utils.py: get_latest_trading_date *)

\* The range of the query: the first of the current month to its day 28.
latest_query_window_to_today(n) ==
    [start_date |-> strftime([n EXCEPT !.day = 1]), end_date |-> strftime(n)]

latest_query_window(n) ==
    [start_date |-> strftime([n EXCEPT !.day = 1]),
     end_date |-> strftime([n EXCEPT !.day = SafeDay])]

\* One turn of the loop over valid_trading_days; latest is [found, value],
\* found being FALSE while latest_trading_date is None.
latest_step_no_today(latest, dstr, today) ==
    IF ~latest.found \/ StrLess(latest.value, dstr)
    THEN [found |-> TRUE, value |-> dstr]
    ELSE latest

latest_step(latest, dstr, today) ==
    IF StrLe(dstr, today) /\ (~latest.found \/ StrLess(latest.value, dstr))
    THEN [found |-> TRUE, value |-> dstr]
    ELSE latest

RECURSIVE latest_loop(_, _, _)
latest_loop(days, latest, today) ==
    IF days = <<>> THEN latest
    ELSE latest_loop(Tail(days), latest_step(latest, days[1], today), today)

\* df[df['is_trading_day'] == '1']['calendar_date'].tolist()
valid_trading_days(df) ==
    LET f == ColumnIndex(df.columns, "is_trading_day")
        c == ColumnIndex(df.columns, "calendar_date")
        kept == SelectSeq(df.rows, LAMBDA r : r[f] = "1")
    IN  [i \in 1..Len(kept) |-> kept[i][c]]

\* n is datetime.now(), out what get_trade_dates does.
get_latest_trading_date_run(n, out) ==
    LET today == strftime(n)
        w == latest_query_window(n)
        call == [method |-> "get_trade_dates", kwargs |-> w]
        failed == [ret |-> strftime(n), calls |-> <<call>>, resp |-> <<out>>,
                   log |-> LogStart \o <<LogRec("ERROR", TRUE)>>]
    IN  IF out.kind # "df" THEN failed
        ELSE IF ColumnIndex(out.columns, "is_trading_day") = 0
                \/ ColumnIndex(out.columns, "calendar_date") = 0 THEN failed
        ELSE LET latest == latest_loop(valid_trading_days(out),
                                       [found |-> FALSE, value |-> <<>>], today)
             IN  IF latest.found /\ latest.value # <<>>
                 THEN [ret |-> latest.value, calls |-> <<call>>, resp |-> <<out>>,
                       log |-> LogStart \o <<LogRec("INFO", FALSE)>>]
                 ELSE [ret |-> today, calls |-> <<call>>, resp |-> <<out>>,
                       log |-> LogStart \o <<LogRec("WARNING", FALSE)>>]

\* The invocation of a calendar tool: c is the calendar of the data source then.
FinishCalendar(name, a, c, r) ==
    /\ op = "none"
    /\ op' = name
    /\ args' = a
    /\ cal' = c
    /\ result' = r.ret
    /\ calls' = r.calls
    /\ resp' = r.resp
    /\ log' = r.log
    /\ UNCHANGED <<now, inflight>>

get_latest_trading_date(c, columns, order) ==
    LET w == latest_query_window(now)
    IN  FinishCalendar("get_latest_trading_date", <<>>, c,
            get_latest_trading_date_run(now,
                get_trade_dates(c, w.start_date, w.end_date, columns, order)))

get_latest_trading_date_fault(out) ==
    FinishCalendar("get_latest_trading_date", <<>>, {}, get_latest_trading_date_run(now, out))

-----------------------------------------------------------------------------
(* The specification of get_latest_trading_date: the clock shows any day of
   DateSpan days on, and the calendar has at most MaxFlagged trading days, at
   some of the offsets from the day of the call. *)

DateSpan == 40      \* the days BaseDate .. BaseDate + DateSpan
MaxFlagged == 2     \* trading days in a calendar

FirstDate == Date(2024, 1, 27)

ClockDays == {AddDays(FirstDate, k) : k \in 0..DateSpan}

\* The calendars with trading days at no more than MaxFlagged of the offsets.
Calendars(day, offsets) ==
    {{toordinal(day) + o : o \in S} : S \in {T \in SUBSET offsets : Cardinality(T) <= MaxFlagged}}

LatestOffsets == {-10, -3, -2, -1, 0, 1, 2, 3, 10}

InitLatest == now \in ClockDays /\ InitIdle

LatestAnswered ==
    Idle /\ \E c \in Calendars(now, LatestOffsets), order \in Orders :
                get_latest_trading_date(c, StandardColumns, order)

LatestOtherColumns ==
    Idle /\ \E c \in Calendars(now, {-1}) : get_latest_trading_date(c, OtherColumns, "asc")

LatestFault == Idle /\ \E out \in CalendarFaults : get_latest_trading_date_fault(out)

NextLatest == LatestAnswered \/ LatestOtherColumns \/ LatestFault \/ Respond

SpecLatest == InitLatest /\ [][NextLatest]_vars

-----------------------------------------------------------------------------
(* The claims about get_latest_trading_date. *)

DateLe(a, b) == toordinal(a) <= toordinal(b)

\* The entries the query returned: the rows of a table with the columns
\* calendar_date and is_trading_day, none when the query raised.
ReturnedEntries ==
    IF resp # <<>> /\ resp[1].kind = "df" /\ resp[1].columns = StandardColumns
    THEN resp[1].rows ELSE <<>>

\* The dates of the returned entries flagged as trading days, today at the latest.
TradingUpToToday ==
    {ReturnedEntries[i][1] : i \in {j \in 1..Len(ReturnedEntries) :
        /\ ReturnedEntries[j][2] = "1"
        /\ DateLe(strptime(ReturnedEntries[j][1]).value, now)}}

\* C6: get_latest_trading_date always returns a non-empty ISO date YYYY-MM-DD
\* that is today or earlier, whatever calendar the data source returns (an empty
\* one too) and also when the query raises.
C6_LatestIsIsoUpToToday ==
    op = "get_latest_trading_date" =>
        /\ IsIsoShape(result)
        /\ strptime(result).kind = "return"
        /\ DateLe(strptime(result).value, now)

C6_Witness ==
    /\ op = "get_latest_trading_date"
    /\ \E i \in 1..Len(ReturnedEntries) :
          /\ ReturnedEntries[i][2] = "1"
          /\ ~DateLe(strptime(ReturnedEntries[i][1]).value, now)
    /\ TradingUpToToday # {}
    /\ result # strftime(now)

\* C7: get_latest_trading_date queries the calendar from the first of the
\* current month to its day 28 and returns the greatest calendar_date among the
\* returned entries flagged as trading days that are not after today, and
\* today when there is none.
C7_LatestIsMaxOfReturned ==
    op = "get_latest_trading_date" =>
        /\ calls = <<[method |-> "get_trade_dates",
                      kwargs |-> [start_date |-> strftime(Date(now.year, now.month, 1)),
                                  end_date |-> strftime(Date(now.year, now.month, 28))]]>>
        /\ IF TradingUpToToday = {}
           THEN result = strftime(now)
           ELSE /\ result \in TradingUpToToday
                /\ \A x \in TradingUpToToday :
                      DateLe(strptime(x).value, strptime(result).value)

C7_Witness ==
    /\ op = "get_latest_trading_date"
    /\ Cardinality(TradingUpToToday) = 2
    /\ result \in TradingUpToToday
    /\ resp[1].rows[1][1] # calls[1].kwargs.start_date

\* The trading days of the calendar up to today.
CalendarUpToToday == {n \in cal : n <= toordinal(now)}

\* C8: get_latest_trading_date returns the latest trading date up to today: the
\* greatest day of the calendar flagged as a trading day that is today or
\* earlier (stated for the calls the data source answered with its entries).
C8_LatestOfCalendar ==
    (op = "get_latest_trading_date" /\ ReturnedEntries # <<>> /\ CalendarUpToToday # {}) =>
        \E n \in CalendarUpToToday :
            /\ \A k \in CalendarUpToToday : k <= n
            /\ result = strftime(fromordinal(n))

-----------------------------------------------------------------------------
(* src/tools/date_utils.py: previous_trading_day and next_trading_day *)

\* 'is_trading_day' if 'is_trading_day' in df.columns else df.columns[-1]
flag_col(df) ==
    IF ColumnIndex(df.columns, "is_trading_day") # 0
    THEN ColumnIndex(df.columns, "is_trading_day") ELSE Len(df.columns)

\* 'calendar_date' if 'calendar_date' in df.columns else df.columns[0]
day_col(df) ==
    IF ColumnIndex(df.columns, "calendar_date") # 0
    THEN ColumnIndex(df.columns, "calendar_date") ELSE 1

\* sort_values(by=...): the rows in ascending order of the column, the rows
\* with the same value in the order they had.
RECURSIVE sort_values(_, _)
sort_values(rows, by) ==
    IF rows = <<>> THEN <<>>
    ELSE LET n == Len(rows)
             front == sort_values(SubSeq(rows, 1, n - 1), by)
             k == Cardinality({i \in 1..(n - 1) : StrLe(front[i][by], rows[n][by])})
         IN  SubSeq(front, 1, k) \o <<rows[n]>> \o SubSeq(front, k + 1, n - 1)

\* The candidates in the order of the answer.
previous_trading_day_candidates_unsorted(df, date) ==
    SelectSeq(df.rows, LAMBDA r : r[flag_col(df)] = "1" /\ StrLess(r[day_col(df)], date))

\* df[(df[flag_col] == '1') & (df[day_col] < date)].sort_values(by=day_col)
previous_trading_day_candidates(df, date) ==
    sort_values(SelectSeq(df.rows, LAMBDA r : r[flag_col(df)] = "1" /\ StrLess(r[day_col(df)], date)),
                day_col(df))

\* The candidates with the day asked about among them.
next_trading_day_candidates_inclusive(df, date) ==
    sort_values(SelectSeq(df.rows, LAMBDA r : r[flag_col(df)] = "1" /\ StrLe(date, r[day_col(df)])),
                day_col(df))

\* df[(df[flag_col] == '1') & (df[day_col] > date)].sort_values(by=day_col)
next_trading_day_candidates(df, date) ==
    sort_values(SelectSeq(df.rows, LAMBDA r : r[flag_col(df)] = "1" /\ StrLess(date, r[day_col(df)])),
                day_col(df))

\* except Exception as e: logger.exception(...); return f"Error: {e}"
trading_day_except(e, made) ==
    [ret |-> <<"Error: ">> \o e.msg, calls |-> made.calls, resp |-> made.resp,
     log |-> LogStart \o <<LogRec("ERROR", TRUE)>>]

\* The range previous_trading_day asks for: the WindowDays days before the
\* day and the day.
previous_query_window(date) ==
    [start_date |-> strftime(AddDays(strptime(date).value, -WindowDays)), end_date |-> date]

\* The range next_trading_day asks for: the day and the WindowDays days after.
next_query_window(date) ==
    [start_date |-> date, end_date |-> strftime(AddDays(strptime(date).value, WindowDays))]

\* out is what get_trade_dates does when it is called.
previous_trading_day_run(date, out) ==
    IF strptime(date).kind = "raise"
    THEN trading_day_except(strptime(date).exc, [calls |-> <<>>, resp |-> <<>>])
    ELSE LET call == [method |-> "get_trade_dates", kwargs |-> previous_query_window(date)]
             made == [calls |-> <<call>>, resp |-> <<out>>]
             unchanged == [ret |-> date, calls |-> <<call>>, resp |-> <<out>>, log |-> LogStart]
         IN  IF out.kind = "raise" THEN trading_day_except(out.exc, made)
             ELSE IF out.kind = "none" THEN unchanged
             ELSE IF IsEmpty(out) THEN unchanged
             ELSE LET candidates == previous_trading_day_candidates(out, date)
                  IN  IF candidates = <<>> THEN unchanged
                      ELSE [unchanged EXCEPT !.ret = candidates[Len(candidates)][day_col(out)]]

next_trading_day_run(date, out) ==
    IF strptime(date).kind = "raise"
    THEN trading_day_except(strptime(date).exc, [calls |-> <<>>, resp |-> <<>>])
    ELSE LET call == [method |-> "get_trade_dates", kwargs |-> next_query_window(date)]
             made == [calls |-> <<call>>, resp |-> <<out>>]
             unchanged == [ret |-> date, calls |-> <<call>>, resp |-> <<out>>, log |-> LogStart]
         IN  IF out.kind = "raise" THEN trading_day_except(out.exc, made)
             ELSE IF out.kind = "none" THEN unchanged
             ELSE IF IsEmpty(out) THEN unchanged
             ELSE LET candidates == next_trading_day_candidates(out, date)
                  IN  IF candidates = <<>> THEN unchanged
                      ELSE [unchanged EXCEPT !.ret = candidates[1][day_col(out)]]

\* The tool called with a date that parses, the data source answering from the
\* calendar c.
previous_trading_day(date, c, columns, order) ==
    LET w == previous_query_window(date)
    IN  /\ strptime(date).kind = "return"
        /\ FinishCalendar("previous_trading_day", <<date>>, c,
               previous_trading_day_run(date,
                   get_trade_dates(c, w.start_date, w.end_date, columns, order)))

\* The tool called with any string, the data source failing the way of out
\* if it comes to the query.
previous_trading_day_fault(date, out) ==
    FinishCalendar("previous_trading_day", <<date>>, {}, previous_trading_day_run(date, out))

next_trading_day(date, c, columns, order) ==
    LET w == next_query_window(date)
    IN  /\ strptime(date).kind = "return"
        /\ FinishCalendar("next_trading_day", <<date>>, c,
               next_trading_day_run(date,
                   get_trade_dates(c, w.start_date, w.end_date, columns, order)))

next_trading_day_fault(date, out) ==
    FinishCalendar("next_trading_day", <<date>>, {}, next_trading_day_run(date, out))

-----------------------------------------------------------------------------
(* src/tools/date_utils.py: is_trading_day *)

\* The value read from the date column instead of the flag column.
is_trading_day_val_of_day_col(df) == df.rows[1][day_col(df)]

\* str(df.iloc[0][flag_col])
is_trading_day_val(df) == df.rows[1][flag_col(df)]

\* The range is_trading_day asks for: the day alone.
is_trading_day_query_window(date) == [start_date |-> date, end_date |-> date]

\* out is what get_trade_dates does.
is_trading_day_run(date, out) ==
    LET call == [method |-> "get_trade_dates", kwargs |-> is_trading_day_query_window(date)]
        made == [calls |-> <<call>>, resp |-> <<out>>]
        no == [ret |-> <<"No">>, calls |-> <<call>>, resp |-> <<out>>, log |-> LogStart]
    IN  IF out.kind = "raise" THEN trading_day_except(out.exc, made)
        ELSE IF out.kind = "none" THEN no
        ELSE IF IsEmpty(out) THEN no
        ELSE IF is_trading_day_val(out) = "1" THEN [no EXCEPT !.ret = <<"Yes">>]
        ELSE no

\* The tool called with a date, the data source answering from the calendar c.
is_trading_day(date, c, columns, order) ==
    /\ strptime(date).kind = "return"
    /\ FinishCalendar("is_trading_day", <<date>>, c,
           is_trading_day_run(date, get_trade_dates(c, date, date, columns, order)))

\* The tool called with any string, the data source failing the way of out.
is_trading_day_fault(date, out) ==
    FinishCalendar("is_trading_day", <<date>>, {}, is_trading_day_run(date, out))

-----------------------------------------------------------------------------
(* The specification of is_trading_day, previous_trading_day and
   next_trading_day, with the failing queries of get_latest_trading_date: the caller
   asks about one of the days FirstDate .. FirstDate + MaxArgDays, or passes a
   string that is no date; the calendar has at most MaxFlagged trading days,
   at some of the offsets from the day asked about, inside the window, at its
   ends and past them. *)

MaxArgDays == 9     \* the days asked about

TradingDayDates == {strftime(AddDays(FirstDate, k)) : k \in 0..MaxArgDays}

\* A day February does not have, and a date with the wrong separators.
MalformedDates ==
    {<<"2", "0", "2", "4", "-", "0", "2", "-", "3", "0">>,
     <<"2", "0", "2", "4", "/", "0", "2", "/", "0", "5">>}

TradingDayOffsets ==
    {-(WindowDays + 1), -WindowDays, -2, -1, 0, 1, 2, WindowDays, WindowDays + 1}

ColumnNames == {StandardColumns, OtherColumns}

PreviousAnswered ==
    Idle /\ \E date \in TradingDayDates, columns \in ColumnNames, order \in Orders :
                \E c \in Calendars(strptime(date).value, TradingDayOffsets) :
                    previous_trading_day(date, c, columns, order)

NextAnswered ==
    Idle /\ \E date \in TradingDayDates, columns \in ColumnNames, order \in Orders :
                \E c \in Calendars(strptime(date).value, TradingDayOffsets) :
                    next_trading_day(date, c, columns, order)

PreviousFault ==
    Idle /\ \E date \in TradingDayDates \cup MalformedDates, out \in CalendarFaults :
                previous_trading_day_fault(date, out)

NextFault ==
    Idle /\ \E date \in TradingDayDates \cup MalformedDates, out \in CalendarFaults :
                next_trading_day_fault(date, out)

\* The day asked about and its neighbours.
IsTradingDayOffsets == {-1, 0, 1}

IsTradingDayAnswered ==
    Idle /\ \E date \in TradingDayDates, columns \in ColumnNames, order \in Orders :
                \E c \in Calendars(strptime(date).value, IsTradingDayOffsets) :
                    is_trading_day(date, c, columns, order)

IsTradingDayFault ==
    Idle /\ \E date \in TradingDayDates \cup MalformedDates, out \in CalendarFaults :
                is_trading_day_fault(date, out)

NextTradingDay ==
    \/ PreviousAnswered \/ NextAnswered \/ PreviousFault \/ NextFault
    \/ IsTradingDayAnswered \/ IsTradingDayFault \/ LatestFault
    \/ Respond

SpecTradingDay == Init /\ [][NextTradingDay]_vars

-----------------------------------------------------------------------------
(* The claims about previous_trading_day and next_trading_day. *)

\* The query was made and answered, with a table or with nothing.
TradingDayAnswered ==
    /\ op \in {"previous_trading_day", "next_trading_day"}
    /\ resp # <<>>
    /\ resp[1].kind \in {"df", "none"}

\* The days the answer flags as trading days, as day numbers.
FlaggedReturned ==
    IF resp # <<>> /\ resp[1].kind = "df"
    THEN {toordinal(strptime(resp[1].rows[i][1]).value) :
             i \in {j \in 1..Len(resp[1].rows) : resp[1].rows[j][2] = "1"}}
    ELSE {}

\* The day asked about, as a day number.
AskedDay == toordinal(strptime(args[1]).value)

\* The result is a date, and ResultDay its day number.
ResultIsDate == IsIsoShape(result) /\ strptime(result).kind = "return"
ResultDay == toordinal(strptime(result).value)

LookbackDays == {n \in cal : AskedDay - WindowDays <= n /\ n < AskedDay}
LookaheadDays == {n \in cal : AskedDay < n /\ n <= AskedDay + WindowDays}

\* C10: previous_trading_day(d) returns the latest trading day of the
\* calendar in the 30 days before d and next_trading_day(d) the earliest in
\* the 30 days after d, in whatever order the data source returns the
\* entries, and no trading day lies strictly between the result and d.
C10_NearestTradingDay ==
    TradingDayAnswered =>
        /\ (op = "previous_trading_day" /\ LookbackDays # {}) =>
              /\ ResultIsDate
              /\ ResultDay \in LookbackDays
              /\ \A n \in LookbackDays : n <= ResultDay
              /\ \A n \in cal : ~(ResultDay < n /\ n < AskedDay)
        /\ (op = "next_trading_day" /\ LookaheadDays # {}) =>
              /\ ResultIsDate
              /\ ResultDay \in LookaheadDays
              /\ \A n \in LookaheadDays : ResultDay <= n
              /\ \A n \in cal : ~(AskedDay < n /\ n < ResultDay)

\* Two trading days before d, the answer not in ascending order.
C10_Witness ==
    /\ TradingDayAnswered
    /\ op = "previous_trading_day"
    /\ Cardinality(LookbackDays) = 2
    /\ resp[1].rows[1][1] # calls[1].kwargs.start_date
    /\ ResultIsDate /\ ResultDay \in LookbackDays

-----------------------------------------------------------------------------
(* The claims about the calendar operations when the query fails, and about
   is_trading_day. *)

\* The calendar query was made and raised.
QueryRaised == resp # <<>> /\ resp[1].kind = "raise"

\* C11: when the calendar query raises, no calendar operation raises or
\* reports an error: is_trading_day answers 'No', previous_trading_day and
\* next_trading_day return the date they were given, and
\* get_latest_trading_date returns today.
C11_QueryFailureDegrades ==
    QueryRaised =>
        /\ ~Raised(result)
        /\ ~StartsWithError(result)
        /\ op = "is_trading_day" => result = <<"No">>
        /\ op \in {"previous_trading_day", "next_trading_day"} => result = args[1]
        /\ op = "get_latest_trading_date" => result = strftime(now)

\* The entry the query for the single day returned, none when it raised or
\* returned nothing.
SingleDayEntries ==
    IF resp # <<>> /\ resp[1].kind = "df" /\ ~IsEmpty(resp[1]) THEN resp[1].rows ELSE <<>>

\* C12: is_trading_day(date) asks for the calendar of that single day and
\* answers 'Yes' exactly when the entry returned has the trading flag '1'; an
\* empty answer or a flag of '0' gives 'No'.
C12_IsTradingDayYesIffFlagged ==
    op = "is_trading_day" =>
        /\ calls = <<[method |-> "get_trade_dates",
                      kwargs |-> [start_date |-> args[1], end_date |-> args[1]]]>>
        /\ result = <<"Yes">> <=> (SingleDayEntries # <<>> /\ SingleDayEntries[1][2] = "1")
        /\ (~QueryRaised /\ (SingleDayEntries = <<>> \/ SingleDayEntries[1][2] = "0"))
              => result = <<"No">>

\* The day asked about is a trading day of the calendar, and the answer is 'Yes'.
C12_Witness ==
    /\ op = "is_trading_day"
    /\ SingleDayEntries # <<>>
    /\ AskedDay \in cal
    /\ result = <<"Yes">>

-----------------------------------------------------------------------------
(* src/tools/date_utils.py: get_market_analysis_timeframe.  The characters of
   the label for year and month are written by their code points. *)

YearZh == "<U+5E74>"
MonthZh == "<U+6708>"

\* str(n) of a natural number: its decimal numeral, not padded.
RECURSIVE Str(_)
Str(n) == IF n < 10 THEN <<Digits[n + 1]>> ELSE Str(n \div 10) \o <<Digits[(n % 10) + 1]>>

\* f"{n:02d}"
Pad2(n) == IF n < 10 THEN <<"0">> \o Str(n) ELSE Str(n)

\* The months taken back without the year of the start turning back.
timeframe_dates_no_rollover(period, n) ==
    LET back == IF period = "quarter" THEN 3 ELSE IF period = "half_year" THEN 6 ELSE 1
        start == Date(n.year, ((n.month + 11 - back) % 12) + 1, 1)
    IN  [start_date |-> start, middle_date |-> start]

\* start_date and middle_date of the period, n being datetime.now().
timeframe_dates(period, n) ==
    IF period = "recent"
    THEN IF n.day < 15
         THEN IF n.month = 1
              THEN [start_date |-> Date(n.year - 1, 11, 1), middle_date |-> Date(n.year - 1, 12, 1)]
              ELSE IF n.month = 2
              THEN [start_date |-> Date(n.year, 1, 1), middle_date |-> Date(n.year, 1, 1)]
              ELSE [start_date |-> Date(n.year, n.month - 2, 1),
                    middle_date |-> Date(n.year, n.month - 1, 1)]
         ELSE IF n.month = 1
              THEN [start_date |-> Date(n.year - 1, 12, 1), middle_date |-> Date(n.year - 1, 12, 1)]
              ELSE [start_date |-> Date(n.year, n.month - 1, 1),
                    middle_date |-> Date(n.year, n.month - 1, 1)]
    ELSE IF period = "quarter"
    THEN LET start == IF n.month <= 3 THEN Date(n.year - 1, n.month + 9, 1)
                      ELSE Date(n.year, n.month - 3, 1)
         IN  [start_date |-> start, middle_date |-> start]
    ELSE IF period = "half_year"
    THEN LET start == IF n.month <= 6 THEN Date(n.year - 1, n.month + 6, 1)
                      ELSE Date(n.year, n.month - 6, 1)
         IN  [start_date |-> start,
              middle_date |-> IF start.month <= 9 THEN Date(start.year, start.month + 3, 1)
                              ELSE Date(start.year + 1, start.month - 9, 1)]
    ELSE IF period = "year"
    THEN LET start == Date(n.year - 1, n.month, 1)
         IN  [start_date |-> start,
              middle_date |-> IF start.month <= 6 THEN Date(start.year, start.month + 6, 1)
                              ELSE Date(start.year + 1, start.month - 6, 1)]
    ELSE LET start == IF n.month = 1 THEN Date(n.year - 1, 12, 1)
                      ELSE Date(n.year, n.month - 1, 1)
         IN  [start_date |-> start, middle_date |-> start]

\* calendar.monthrange(year, month)[1]
get_month_end_day(year, month) == DaysInMonth(year, month)

\* The last day of January whatever the month of the end date.
timeframe_end_day_of_january(end_date) == get_month_end_day(end_date.year, 1)

\* min(get_month_end_day(end_date.year, end_date.month), end_date.day)
timeframe_end_day(end_date) == Min(get_month_end_day(end_date.year, end_date.month), end_date.day)

\* f"{end_date.year}-{end_date.month:02d}-{end_day:02d}"
end_iso_date(end_date) ==
    Str(end_date.year) \o <<"-">> \o Pad2(end_date.month) \o <<"-">> \o Pad2(timeframe_end_day(end_date))

\* The first day of the month after that of start_date.
start_iso_date_of_next_month(start_date) ==
    IF start_date.month = 12
    THEN Str(start_date.year + 1) \o <<"-", "0", "1", "-", "0", "1">>
    ELSE Str(start_date.year) \o <<"-">> \o Pad2(start_date.month + 1) \o <<"-", "0", "1">>

\* f"{start_date.year}-{start_date.month:02d}-01"
start_iso_date(start_date) ==
    Str(start_date.year) \o <<"-">> \o Pad2(start_date.month) \o <<"-", "0", "1">>

\* The label with the form of three months ahead of the form of two years.
date_range_months_first(start_date, middle_date, end_date) ==
    IF middle_date.month # start_date.month /\ middle_date.month # end_date.month
    THEN Str(start_date.year) \o <<YearZh>> \o Str(start_date.month) \o <<MonthZh, "-">>
            \o Str(middle_date.month) \o <<MonthZh, "-">> \o Str(end_date.month) \o <<MonthZh>>
    ELSE Str(start_date.year) \o <<YearZh>> \o Str(start_date.month) \o <<MonthZh, "-">>
            \o Str(end_date.year) \o <<YearZh>> \o Str(end_date.month) \o <<MonthZh>>

\* The label of the range.
date_range(start_date, middle_date, end_date) ==
    IF start_date.year # end_date.year
    THEN Str(start_date.year) \o <<YearZh>> \o Str(start_date.month) \o <<MonthZh, "-">>
            \o Str(end_date.year) \o <<YearZh>> \o Str(end_date.month) \o <<MonthZh>>
    ELSE IF middle_date.month # start_date.month /\ middle_date.month # end_date.month
    THEN Str(start_date.year) \o <<YearZh>> \o Str(start_date.month) \o <<MonthZh, "-">>
            \o Str(middle_date.month) \o <<MonthZh, "-">> \o Str(end_date.month) \o <<MonthZh>>
    ELSE IF start_date.month # end_date.month
    THEN Str(start_date.year) \o <<YearZh>> \o Str(start_date.month) \o <<MonthZh, "-">>
            \o Str(end_date.month) \o <<MonthZh>>
    ELSE Str(start_date.year) \o <<YearZh>> \o Str(start_date.month) \o <<MonthZh>>

\* f"{date_range} (ISO: {start_iso_date} to {end_iso_date})"
get_market_analysis_timeframe_run(period, n) ==
    LET d == timeframe_dates(period, n)
    IN  [ret |-> date_range(d.start_date, d.middle_date, n) \o <<" (ISO: ">>
                    \o start_iso_date(d.start_date) \o <<" to ">> \o end_iso_date(n) \o <<")">>,
         calls |-> <<>>, resp |-> <<>>,
         log |-> LogStart \o <<LogRec("INFO", FALSE)>>]

get_market_analysis_timeframe(period) ==
    Finish("get_market_analysis_timeframe", <<period>>, get_market_analysis_timeframe_run(period, now))

-----------------------------------------------------------------------------
(* The specification of get_market_analysis_timeframe: the clock shows any
   day of TimeframeSpan days on from the first of 2024, a leap year, into the
   March after it. *)

TimeframeSpan == 425

TimeframeFirst == Date(2024, 1, 1)

TimeframeDays == {AddDays(TimeframeFirst, k) : k \in 0..TimeframeSpan}

\* The period keywords, "month" being none of the four.
Periods == {"recent", "quarter", "half_year", "year", "month"}

InitTimeframe == now \in TimeframeDays /\ InitIdle

Timeframe == Idle /\ \E period \in Periods : get_market_analysis_timeframe(period)

NextTimeframe == Timeframe \/ Respond

SpecTimeframe == InitTimeframe /\ [][NextTimeframe]_vars

-----------------------------------------------------------------------------
(* The claims about get_market_analysis_timeframe.  The result reads
   "<label> (ISO: <start> to <end>)", the two dates of ten characters and
   " (ISO: ", " to " and ")" one piece each. *)

TimeframeDone == op = "get_market_analysis_timeframe"

TimeframeEndIso == SubSeq(result, Len(result) - 10, Len(result) - 1)
TimeframeStartIso == SubSeq(result, Len(result) - 21, Len(result) - 12)
TimeframeLabel == SubSeq(result, 1, Len(result) - 23)

\* The first day of the month k calendar months before the month of d.
MonthsBack(d, k) ==
    LET t == d.year * 12 + (d.month - 1) - k
    IN  Date(t \div 12, (t % 12) + 1, 1)

\* C13: for every period keyword and every today, the end date of the
\* timeframe is in today's year and month, and its day is at most the number
\* of days of that month, leap years included.
C13_EndWithinCurrentMonth ==
    TimeframeDone =>
        /\ IsIsoShape(TimeframeEndIso)
        /\ IsoYear(TimeframeEndIso) = now.year
        /\ IsoMonth(TimeframeEndIso) = now.month
        /\ IsoDay(TimeframeEndIso) \in 1..DaysInMonth(now.year, now.month)

\* Asked on the leap day.
C13_Witness ==
    /\ TimeframeDone
    /\ now.month = 2 /\ now.day = 29
    /\ IsoDay(TimeframeEndIso) = 29

\* C14: for 'recent' the timeframe starts on the first day of the month two
\* calendar months before today's month when today's day is below 15, the
\* year turning back in January and February, and one calendar month before
\* otherwise; it ends today.
C14_RecentStart ==
    (TimeframeDone /\ args[1] = "recent") =>
        /\ TimeframeStartIso = strftime(MonthsBack(now, IF now.day < 15 THEN 2 ELSE 1))
        /\ TimeframeEndIso = strftime(now)

\* C15: for 'quarter', 'half_year' and 'year' the timeframe starts on the
\* first day of the month 3, 6 and 12 calendar months before today's month,
\* the year turning back when the subtraction passes January, and the month
\* of the start is one of 1..12.
C15_PeriodStart ==
    (TimeframeDone /\ args[1] \in {"quarter", "half_year", "year"}) =>
        /\ IsIsoShape(TimeframeStartIso)
        /\ IsoMonth(TimeframeStartIso) \in 1..12
        /\ TimeframeStartIso =
              strftime(MonthsBack(now, IF args[1] = "quarter" THEN 3
                                       ELSE IF args[1] = "half_year" THEN 6 ELSE 12))

\* A quarter asked in the first three months of a year.
C15_Witness ==
    /\ TimeframeDone
    /\ args[1] = "quarter"
    /\ now.month <= 3
    /\ IsoYear(TimeframeStartIso) = now.year - 1

LabelYM(y, m) == Str(y) \o <<YearZh>> \o Str(m) \o <<MonthZh>>
LabelM(m) == Str(m) \o <<MonthZh>>

\* How many times x is in the sequence.
CountOf(seq, x) == Cardinality({i \in 1..Len(seq) : seq[i] = x})

\* C16: the label is, in this order of priority: year and month of start and
\* of end when they are in different years; else the three months when the
\* month of the midpoint is strictly between those of start and end; else the
\* two months when they differ; else the one month.  When the three months
\* are shown, the month of the midpoint is strictly between the other two.
C16_LabelPriority ==
    TimeframeDone =>
        LET start == strptime(TimeframeStartIso).value
            middle == timeframe_dates(args[1], now).middle_date
        IN  /\ TimeframeLabel =
                  IF start.year # now.year
                  THEN LabelYM(start.year, start.month) \o <<"-">> \o LabelYM(now.year, now.month)
                  ELSE IF start.month < middle.month /\ middle.month < now.month
                  THEN LabelYM(start.year, start.month) \o <<"-">> \o LabelM(middle.month)
                          \o <<"-">> \o LabelM(now.month)
                  ELSE IF start.month # now.month
                  THEN LabelYM(start.year, start.month) \o <<"-">> \o LabelM(now.month)
                  ELSE LabelYM(start.year, start.month)
            /\ CountOf(TimeframeLabel, MonthZh) = 3 =>
                  (start.month < middle.month /\ middle.month < now.month)

\* The three months are shown.
C16_Witness ==
    /\ TimeframeDone
    /\ CountOf(TimeframeLabel, MonthZh) = 3
    /\ CountOf(TimeframeLabel, YearZh) = 1

-----------------------------------------------------------------------------
(* src/tools/helpers.py: normalize_stock_code.  Codes are sequences of
   characters.  The second pattern has its flag (?i) in the middle of the
   expression, which the re module of Python up to 3.10 takes, with a
   warning, as a flag of the whole pattern, and that of Python 3.11 and later
   rejects with re.error when the pattern is compiled. *)

ReModules == {"flags anywhere", "flags at the start"}

Whitespace == {" "}

\* str.strip()
RECURSIVE strip(_)
strip(s) ==
    IF s = <<>> THEN s
    ELSE IF s[1] \in Whitespace THEN strip(Tail(s))
    ELSE IF s[Len(s)] \in Whitespace THEN strip(SubSeq(s, 1, Len(s) - 1))
    ELSE s

\* str.lower() of a character of a code.
LowerChar(c) == IF c = "S" THEN "s" ELSE IF c = "H" THEN "h" ELSE IF c = "Z" THEN "z"
                ELSE IF c = "X" THEN "x" ELSE c

lower(s) == [i \in 1..Len(s) |-> LowerChar(s[i])]

\* \d{6} over the whole of s
IsSixDigits(s) == Len(s) = 6 /\ isdigit(s)

\* (sh|sz) with (?i) over the whole of s
IsExchange(s) == lower(s) \in {<<"s", "h">>, <<"s", "z">>}

Match(groups) == [kind |-> "match", groups |-> groups]
NoMatch == [kind |-> "nomatch"]

\* re.fullmatch(r"(?i)(sh|sz)[\.]?(\d{6})", raw)
fullmatch_exchange_first(raw) ==
    IF Len(raw) = 8 /\ IsExchange(SubSeq(raw, 1, 2)) /\ IsSixDigits(SubSeq(raw, 3, 8))
    THEN Match(<<SubSeq(raw, 1, 2), SubSeq(raw, 3, 8)>>)
    ELSE IF Len(raw) = 9 /\ IsExchange(SubSeq(raw, 1, 2)) /\ raw[3] = "."
            /\ IsSixDigits(SubSeq(raw, 4, 9))
    THEN Match(<<SubSeq(raw, 1, 2), SubSeq(raw, 4, 9)>>)
    ELSE NoMatch

\* re.fullmatch(r"(\d{6})[\.]?(?i)(sh|sz)", raw), re being the re module
fullmatch_digits_first(raw, re) ==
    IF re = "flags at the start"
    THEN Raise([cls |-> "re.error",
                msg |-> <<"global flags not at the start of the expression at position 12">>])
    ELSE IF Len(raw) = 8 /\ IsSixDigits(SubSeq(raw, 1, 6)) /\ IsExchange(SubSeq(raw, 7, 8))
    THEN Match(<<SubSeq(raw, 1, 6), SubSeq(raw, 7, 8)>>)
    ELSE IF Len(raw) = 9 /\ IsSixDigits(SubSeq(raw, 1, 6)) /\ raw[7] = "."
            /\ IsExchange(SubSeq(raw, 8, 9))
    THEN Match(<<SubSeq(raw, 1, 6), SubSeq(raw, 8, 9)>>)
    ELSE NoMatch

\* re.match(r"(\d{6})", raw): six digits at the start of raw.
fullmatch_digits_at_start(raw) ==
    IF Len(raw) >= 6 /\ IsSixDigits(SubSeq(raw, 1, 6)) THEN Match(<<SubSeq(raw, 1, 6)>>) ELSE NoMatch

\* re.fullmatch(r"(\d{6})", raw)
fullmatch_digits(raw) == IF IsSixDigits(raw) THEN Match(<<raw>>) ELSE NoMatch

ReCall(n) == [method |-> "re.fullmatch", pattern |-> n]

\* code is the argument, re the re module of the interpreter.
normalize_stock_code_run(code, re) ==
    LET raw == strip(code)
        m == fullmatch_exchange_first(raw)
        m2 == fullmatch_digits_first(raw, re)
        m3 == fullmatch_digits(raw)
        done == [ret |-> <<>>, calls |-> <<>>, resp |-> <<>>, log |-> LogStart]
    IN  IF raw = <<>>
        THEN [done EXCEPT !.ret = <<"Error: ", "'code' is required.">>]
        ELSE IF m.kind = "match"
        THEN [done EXCEPT !.ret = lower(m.groups[1]) \o <<".">> \o m.groups[2],
                          !.calls = <<ReCall(1)>>, !.resp = <<m>>]
        ELSE IF m2.kind = "raise"
        THEN [done EXCEPT !.ret = <<"Error: ">> \o m2.exc.msg,
                          !.calls = <<ReCall(1), ReCall(2)>>, !.resp = <<m, m2>>,
                          !.log = LogStart \o <<LogRec("ERROR", TRUE)>>]
        ELSE IF m2.kind = "match"
        THEN [done EXCEPT !.ret = lower(m2.groups[2]) \o <<".">> \o m2.groups[1],
                          !.calls = <<ReCall(1), ReCall(2)>>, !.resp = <<m, m2>>]
        ELSE IF m3.kind = "match"
        THEN [done EXCEPT !.ret = (IF m3.groups[1][1] = "6" THEN <<"s", "h">> ELSE <<"s", "z">>)
                                      \o <<".">> \o m3.groups[1],
                          !.calls = <<ReCall(1), ReCall(2), ReCall(3)>>, !.resp = <<m, m2, m3>>]
        ELSE [done EXCEPT !.ret = <<"Error: ", "Unsupported code format. Examples: 'sh.600000', '600000', '000001.SZ'.">>,
                          !.calls = <<ReCall(1), ReCall(2), ReCall(3)>>, !.resp = <<m, m2, m3>>]

normalize_stock_code(code, re) ==
    Finish("normalize_stock_code", <<code>>, normalize_stock_code_run(code, re))

-----------------------------------------------------------------------------
(* The specification of normalize_stock_code: codes made of an exchange or
   none, a dot or none, digits, a dot or none, an exchange or none, with or
   without blanks around. *)

ExchangeTokens == {<<>>, <<"s", "h">>, <<"S", "H">>, <<"S", "z">>, <<"s", "z">>, <<"x", "x">>}

DotTokens == {<<>>, <<".">>}

DigitTokens ==
    {<<>>, <<"6", "0", "0", "0", "0", "0">>, <<"0", "0", "0", "0", "0", "1">>,
     <<"1", "2", "3", "4">>, <<"6", "0", "0", "0", "0", "0", "0">>, <<"6", "0", "0", "0", "0", "x">>}

PadTokens == {<<>>, <<" ">>}

RawCodes ==
    {pad \o ex1 \o dot1 \o num \o dot2 \o ex2 \o pad :
        pad \in PadTokens, ex1 \in ExchangeTokens, dot1 \in DotTokens, num \in DigitTokens,
        dot2 \in DotTokens, ex2 \in ExchangeTokens}

Normalize == Idle /\ \E code \in RawCodes, re \in ReModules : normalize_stock_code(code, re)

NextHelpers == Normalize \/ Respond

SpecHelpers == Init /\ [][NextHelpers]_vars

-----------------------------------------------------------------------------
(* The claim about normalize_stock_code. *)

\* The argument without the blanks around it.
GivenCode == strip(args[1])

\* C17: normalize_stock_code maps six digits to 'sh.' and the digits when
\* they start with '6' and to 'sz.' and the digits otherwise; six digits
\* followed by SH or SZ, and SH or SZ followed by six digits, in any case and
\* with or without a dot between, to the exchange in lower case, a dot and the
\* digits; every other input yields an error string.
C17_NormalizeStockCode ==
    op = "normalize_stock_code" =>
        LET c == GivenCode
            n == Len(c)
        IN  IF IsSixDigits(c)
            THEN result = (IF c[1] = "6" THEN <<"s", "h", ".">> ELSE <<"s", "z", ".">>) \o c
            ELSE IF n \in {8, 9} /\ IsSixDigits(SubSeq(c, 1, 6)) /\ IsExchange(SubSeq(c, n - 1, n))
                    /\ (n = 9 => c[7] = ".")
            THEN result = lower(SubSeq(c, n - 1, n)) \o <<".">> \o SubSeq(c, 1, 6)
            ELSE IF n \in {8, 9} /\ IsExchange(SubSeq(c, 1, 2)) /\ IsSixDigits(SubSeq(c, n - 5, n))
                    /\ (n = 9 => c[3] = ".")
            THEN result = lower(SubSeq(c, 1, 2)) \o <<".">> \o SubSeq(c, n - 5, n)
            ELSE StartsWithError(result)

-----------------------------------------------------------------------------
(* src/akshare_etf_data_source.py: the operations of AKShareETFDataSource.
   Each makes one call of AKShare, ak being what that call does: a table, of
   which nrows rows are of the code or market asked for, or an exception.  An
   operation ends in the table or in Raise(exception).  The Chinese texts of
   the messages are glossed in English between angle brackets. *)

AnalysisDays == 30      \* timedelta(days=30)

Frequencies == {"d", "w", "m", "q"}
Markets == {"all", "sh", "sz", "bj"}

\* period of ak.fund_etf_hist_em for a frequency, None for the others
HistPeriod(frequency) ==
    IF frequency = "d" THEN "daily" ELSE IF frequency = "w" THEN "weekly"
    ELSE IF frequency = "m" THEN "monthly" ELSE None

\* except Exception as e: raise DataSourceError(f"...: {e}")
WrapDataSourceError(text, e) == Raise([cls |-> "DataSourceError", msg |-> <<text>> \o e.msg])

AKShareETFDataSource_get_etf_historical_data(etf_code, start_date, end_date, frequency, ak) ==
    IF HistPeriod(frequency) = None
    THEN Raise([cls |-> "ValueError", msg |-> <<"<unsupported frequency>: ", frequency>>])
    ELSE IF ak.kind = "raise"
    THEN IF isinstance(ak.exc, "NoDataFoundError") \/ isinstance(ak.exc, "ValueError")
         THEN ak
         ELSE WrapDataSourceError("<fetching the ETF historical data failed>: ", ak.exc)
    ELSE IF ak.nrows = 0
    THEN Raise([cls |-> "NoDataFoundError",
                msg |-> <<"<no historical data found for ETF> ", etf_code>>])
    ELSE ak

AKShareETFDataSource_get_etf_holdings(etf_code, date, ak) ==
    IF ak.kind = "raise"
    THEN IF isinstance(ak.exc, "NoDataFoundError")
         THEN ak
         ELSE WrapDataSourceError("<fetching the ETF holdings failed>: ", ak.exc)
    ELSE IF ak.nrows = 0
    THEN Raise([cls |-> "NoDataFoundError", msg |-> <<"<no holdings found for ETF> ", etf_code>>])
    ELSE ak

AKShareETFDataSource_get_etf_list(market, ak) ==
    IF market \notin {"all", "sh", "sz"}
    THEN Raise([cls |-> "ValueError", msg |-> <<"<unsupported market>: ", market>>])
    ELSE IF ak.kind = "raise"
    THEN IF isinstance(ak.exc, "NoDataFoundError") \/ isinstance(ak.exc, "ValueError")
         THEN ak
         ELSE WrapDataSourceError("<fetching the ETF list failed>: ", ak.exc)
    ELSE IF ak.nrows = 0
    THEN Raise([cls |-> "NoDataFoundError", msg |-> <<"<no ETF list found for market> ", market>>])
    ELSE ak

AKShareETFDataSource_get_etf_net_value(etf_code, start_date, end_date, ak) ==
    IF ak.kind = "raise"
    THEN IF isinstance(ak.exc, "NoDataFoundError")
         THEN ak
         ELSE WrapDataSourceError("<fetching the ETF net value failed>: ", ak.exc)
    ELSE IF ak.nrows = 0
    THEN Raise([cls |-> "NoDataFoundError", msg |-> <<"<no net value found for ETF> ", etf_code>>])
    ELSE ak

\* get_etf_analysis, the composite operation.  acc = [calls, resp] are the
\* sub-fetches made so far and what they ended in.

\* Every statement of the try block reached, whatever the earlier ones did.
get_etf_analysis_reaches_always(acc) == TRUE

\* A statement of the try block is reached when no earlier one raised.
get_etf_analysis_reaches(acc) == \A i \in 1..Len(acc.resp) : acc.resp[i].kind # "raise"

get_etf_analysis_step(acc, call, out) ==
    IF get_etf_analysis_reaches(acc)
    THEN [calls |-> Append(acc.calls, call), resp |-> Append(acc.resp, out)]
    ELSE acc

\* The clause that lets NoDataFoundError through, as the other operations do.
get_etf_analysis_except_not_found_through(e) ==
    IF isinstance(e, "NoDataFoundError") THEN Raise(e)
    ELSE WrapDataSourceError("<fetching the ETF analysis data failed>: ", e)

\* except Exception as e: raise DataSourceError(f"...: {e}")
get_etf_analysis_except(e) == WrapDataSourceError("<fetching the ETF analysis data failed>: ", e)

\* n is datetime.now(); ak1, ak2, ak3 what the AKShare calls of the three
\* sub-fetches do when they are made.
AKShareETFDataSource_get_etf_analysis(etf_code, n, ak1, ak2, ak3) ==
    LET end_date == strftime(n)
        start_date == strftime(AddDays(n, -AnalysisDays))
        s1 == get_etf_analysis_step([calls |-> <<>>, resp |-> <<>>],
                  [method |-> "get_etf_basic_info", kwargs |-> <<etf_code>>],
                  AKShareETFDataSource_get_etf_basic_info(etf_code, ak1))
        s2 == get_etf_analysis_step(s1,
                  [method |-> "get_etf_historical_data", kwargs |-> <<etf_code, start_date, end_date>>],
                  AKShareETFDataSource_get_etf_historical_data(etf_code, start_date, end_date, "d", ak2))
        s3 == get_etf_analysis_step(s2,
                  [method |-> "get_etf_holdings", kwargs |-> <<etf_code>>],
                  AKShareETFDataSource_get_etf_holdings(etf_code, None, ak3))
        raised == {i \in 1..Len(s3.resp) : s3.resp[i].kind = "raise"}
        first == CHOOSE i \in raised : \A j \in raised : i <= j
    IN  IF raised # {}
        THEN [ret |-> get_etf_analysis_except(s3.resp[first].exc),
              calls |-> s3.calls, resp |-> s3.resp,
              log |-> LogStart \o <<LogRec("ERROR", FALSE)>>]
        ELSE [ret |-> Return([basic_info |-> s3.resp[1], recent_performance |-> s3.resp[2],
                              holdings |-> s3.resp[3]]),
              calls |-> s3.calls, resp |-> s3.resp,
              log |-> LogStart \o <<LogRec("INFO", FALSE)>>]

\* One of the other operations of the provider called: name the operation,
\* a its arguments, made whether the call of AKShare is made, out what the
\* operation ends in.
ProviderCall(name, a, made, ak, out) ==
    Finish(name, a,
           [ret |-> out,
            calls |-> IF made THEN <<[method |-> "ak", kwargs |-> a]>> ELSE <<>>,
            resp |-> IF made THEN <<ak>> ELSE <<>>,
            log |-> LogStart \o <<LogRec(IF out.kind = "raise" THEN "ERROR" ELSE "INFO", FALSE)>>])

-----------------------------------------------------------------------------
(* The specification of the ETF provider: its six operations called with
   every outcome of the AKShare calls. *)

EtfAnalysis ==
    Idle /\ \E etf_code \in EtfCodes, ak1 \in AkOutcomes, ak2 \in AkOutcomes, ak3 \in AkOutcomes :
                Finish("get_etf_analysis", <<etf_code>>,
                       AKShareETFDataSource_get_etf_analysis(etf_code, now, ak1, ak2, ak3))

EtfProviderBasicInfo ==
    Idle /\ \E etf_code \in EtfCodes, ak \in AkOutcomes :
                ProviderCall("get_etf_basic_info", <<etf_code>>, TRUE, ak,
                             AKShareETFDataSource_get_etf_basic_info(etf_code, ak))

EtfHistoricalData ==
    Idle /\ \E etf_code \in EtfCodes, frequency \in Frequencies, ak \in AkOutcomes :
                ProviderCall("get_etf_historical_data", <<etf_code, frequency>>,
                             HistPeriod(frequency) # None, ak,
                             AKShareETFDataSource_get_etf_historical_data(etf_code,
                                 strftime(AddDays(now, -AnalysisDays)), strftime(now), frequency, ak))

EtfHoldings ==
    Idle /\ \E etf_code \in EtfCodes, ak \in AkOutcomes :
                ProviderCall("get_etf_holdings", <<etf_code>>, TRUE, ak,
                             AKShareETFDataSource_get_etf_holdings(etf_code, None, ak))

EtfList ==
    Idle /\ \E market \in Markets, ak \in AkOutcomes :
                ProviderCall("get_etf_list", <<market>>, market \in {"all", "sh", "sz"}, ak,
                             AKShareETFDataSource_get_etf_list(market, ak))

EtfNetValue ==
    Idle /\ \E etf_code \in EtfCodes, ak \in AkOutcomes :
                ProviderCall("get_etf_net_value", <<etf_code>>, TRUE, ak,
                             AKShareETFDataSource_get_etf_net_value(etf_code,
                                 strftime(AddDays(now, -AnalysisDays)), strftime(now), ak))

NextEtfProvider ==
    \/ EtfAnalysis \/ EtfProviderBasicInfo \/ EtfHistoricalData \/ EtfHoldings
    \/ EtfList \/ EtfNetValue \/ Respond

SpecEtfProvider == Init /\ [][NextEtfProvider]_vars

-----------------------------------------------------------------------------
(* The claims about the ETF provider. *)

AnalysisDone == op = "get_etf_analysis"

\* The sub-fetches that failed.
FailedSubFetches == {i \in 1..Len(resp) : resp[i].kind = "raise"}

SubFetchOrder ==
    <<[method |-> "get_etf_basic_info", kwargs |-> <<args[1]>>],
      [method |-> "get_etf_historical_data",
       kwargs |-> <<args[1], strftime(AddDays(now, -30)), strftime(now)>>],
      [method |-> "get_etf_holdings", kwargs |-> <<args[1]>>]>>

\* C19: get_etf_analysis issues its sub-fetches one after the other in the
\* order basic info, historical data of the 30 days up to today, holdings,
\* each at most once, and none after one that failed.
C19_SubFetchesInOrder ==
    AnalysisDone =>
        /\ Len(calls) \in 1..3
        /\ calls = SubSeq(SubFetchOrder, 1, Len(calls))
        /\ Len(resp) = Len(calls)
        /\ \A i \in FailedSubFetches : i = Len(calls)
        /\ FailedSubFetches = {} => Len(calls) = 3

\* The historical data fail: the holdings are not asked for.
C19_Witness ==
    /\ AnalysisDone
    /\ Len(calls) = 2
    /\ resp[1].kind = "df" /\ resp[2].kind = "raise"

ProviderOperations ==
    {"get_etf_basic_info", "get_etf_historical_data", "get_etf_holdings", "get_etf_list",
     "get_etf_net_value"}

\* The frequency or market given is not one the operation supports.
UnsupportedToken ==
    \/ op = "get_etf_historical_data" /\ args[2] \notin {"d", "w", "m"}
    \/ op = "get_etf_list" /\ args[1] \notin {"all", "sh", "sz"}

\* C20: every operation of the provider but the composite one ends in
\* exactly one of: a table with rows; NoDataFoundError, when and only when the
\* provider answered with no rows; ValueError, when and only when the
\* frequency or market is not supported; DataSourceError for every other
\* fault of the call of the provider; no other exception leaves it.
C20_ProviderErrorKinds ==
    op \in ProviderOperations =>
        IF UnsupportedToken
        THEN result.kind = "raise" /\ result.exc.cls = "ValueError"
        ELSE IF resp[1].kind = "raise"
        THEN result.kind = "raise" /\ result.exc.cls = "DataSourceError"
        ELSE IF resp[1].nrows = 0
        THEN result.kind = "raise" /\ result.exc.cls = "NoDataFoundError"
        ELSE result.kind = "df" /\ result.nrows > 0

-----------------------------------------------------------------------------
(* src/tools/etf_analysis.py, src/tools/etf_market.py and
   src/tools/realtime.py: the ETF tools.  The strings the caller gives are
   sequences of pieces: a code, a comma or a blank each. *)

\* The report building of a tool fails, or not.
ReportFaults == {NoFault, [cls |-> "KeyError", msg |-> <<"m1">>]}

\* The tool get_etf_analysis: the composite operation of the provider, then
\* the report; the except clauses are the four of get_etf_basic_info.
get_etf_analysis_tool_run(etf_code, n, ak1, ak2, ak3, fault) ==
    LET r == AKShareETFDataSource_get_etf_analysis(etf_code, n, ak1, ak2, ak3)
        e == IF r.ret.kind = "raise" THEN r.ret.exc ELSE fault
    IN  IF e # NoFault
        THEN [ret |-> get_etf_basic_info_except(e).ret,
              calls |-> r.calls, resp |-> r.resp,
              log |-> LogStart \o r.log \o <<get_etf_basic_info_except(e).log>>]
        ELSE [ret |-> <<"# <ETF analysis report>", etf_code>>,
              calls |-> r.calls, resp |-> r.resp,
              log |-> LogStart \o r.log \o <<LogRec("INFO", FALSE)>>]

get_etf_analysis_tool(etf_code, ak1, ak2, ak3, fault) ==
    Finish("get_etf_analysis", [etf_code |-> etf_code],
           get_etf_analysis_tool_run(etf_code, now, ak1, ak2, ak3, fault))

\* The tool get_etf_list: no limit and no format are taken or handed on.
get_etf_list_run(market, ak) ==
    LET call == [method |-> "get_etf_list", kwargs |-> [market |-> market]]
        out == AKShareETFDataSource_get_etf_list(market, ak)
    IN  IF out.kind = "raise"
        THEN [ret |-> get_etf_basic_info_except(out.exc).ret,
              calls |-> <<call>>, resp |-> <<out>>,
              log |-> LogStart \o <<get_etf_basic_info_except(out.exc).log>>]
        ELSE [ret |-> format_df_to_markdown(out.nrows).value,
              calls |-> <<call>>, resp |-> <<out, format_df_to_markdown(out.nrows)>>,
              log |-> LogStart \o <<LogRec("INFO", FALSE)>>]

get_etf_list(market, ak) ==
    Finish("get_etf_list", [market |-> market], get_etf_list_run(market, ak))

\* etf_codes.split(','): the pieces between the commas.
RECURSIVE split(_)
split(s) ==
    IF \A i \in 1..Len(s) : s[i] # "," THEN <<s>>
    ELSE LET k == CHOOSE i \in 1..Len(s) : s[i] = "," /\ \A j \in 1..(i - 1) : s[j] # ","
         IN  <<SubSeq(s, 1, k - 1)>> \o split(SubSeq(s, k + 1, Len(s)))

\* [code.strip() for code in etf_codes.split(',')]
compare_etfs_codes(etf_codes) == [i \in 1..Len(split(etf_codes)) |-> strip(split(etf_codes)[i])]

\* etf_data[code] = None
NoneDf == [kind |-> "None"]

\* etf_data[key] = value of a dict, which keeps the order of the first
\* assignments of its keys.
dict_setitem(d, key, value) ==
    IF \E i \in 1..Len(d) : d[i].key = key
    THEN [i \in 1..Len(d) |-> IF d[i].key = key THEN [key |-> key, value |-> value] ELSE d[i]]
    ELSE Append(d, [key |-> key, value |-> value])

\* The loop over the codes up to the k-th: outs[i] is what the fetch of the
\* i-th code ends in.
RECURSIVE compare_etfs_etf_data(_, _, _)
compare_etfs_etf_data(codes, outs, k) ==
    IF k = 0 THEN <<>>
    ELSE dict_setitem(compare_etfs_etf_data(codes, outs, k - 1), codes[k],
                      IF outs[k].kind = "raise" THEN NoneDf ELSE outs[k])

\* One row of the comparison table.
compare_etfs_row(entry) ==
    IF entry.value # NoneDf /\ entry.value.nrows > 0
    THEN <<"| ">> \o entry.key \o <<" | <name, price, change, volume>">>
    ELSE <<"| ">> \o entry.key \o <<" | <data fetch failed>">>

RECURSIVE compare_etfs_rows(_)
compare_etfs_rows(etf_data) ==
    IF etf_data = <<>> THEN <<>>
    ELSE compare_etfs_row(etf_data[1]) \o compare_etfs_rows(Tail(etf_data))

\* aks[i] is what the AKShare call of the i-th fetch does.
compare_etfs_run(etf_codes, aks) ==
    LET codes == compare_etfs_codes(etf_codes)
        outs == [i \in 1..Len(codes) |-> AKShareETFDataSource_get_etf_basic_info(codes[i], aks[i])]
        etf_data == compare_etfs_etf_data(codes, outs, Len(codes))
    IN  IF Len(codes) < 2
        THEN [ret |-> <<ErrorZh, "<at least 2 ETF codes are needed for a comparison>">>,
              calls |-> <<>>, resp |-> <<>>, log |-> LogStart]
        ELSE [ret |-> <<"# <ETF comparison>">> \o compare_etfs_rows(etf_data)
                          \o <<"<conclusion>">>,
              calls |-> [i \in 1..Len(codes) |->
                            [method |-> "get_etf_basic_info", kwargs |-> [etf_code |-> codes[i]]]],
              resp |-> outs,
              log |-> LogStart
                      \o SelectSeq([i \in 1..Len(codes) |->
                                       LogRec(IF outs[i].kind = "raise" THEN "WARNING" ELSE "none",
                                              FALSE)],
                                   LAMBDA l : l.level # "none")
                      \o <<LogRec("INFO", FALSE)>>]

compare_etfs(etf_codes, aks) ==
    Finish("compare_etfs", [etf_codes |-> etf_codes], compare_etfs_run(etf_codes, aks))

\* str.upper() of a character of a code.
UpperChar(c) == IF c = "s" THEN "S" ELSE IF c = "h" THEN "H" ELSE IF c = "z" THEN "Z" ELSE c

upper(s) == [i \in 1..Len(s) |-> UpperChar(s[i])]

\* _normalize_code(code)
normalize_code(code) == IF code = <<>> THEN code ELSE upper(strip(code))

\* _fetch_realtime_for_equity_or_etf(code): the ETF table is asked for the
\* code, and the stock table when the ETF table failed or has no row of it;
\* ak1 and ak2 are what the two AKShare calls do, nrows the rows of the code.
fetch_realtime_for_equity_or_etf(code, ak1, ak2) ==
    LET norm == normalize_code(code)
        etf == [method |-> "ak.fund_etf_spot_em", kwargs |-> <<>>]
        stock == [method |-> "ak.stock_zh_a_spot_em", kwargs |-> <<>>]
        warn == IF ak1.kind = "raise" THEN <<LogRec("WARNING", FALSE)>> ELSE <<>>
        err == IF ak2.kind = "raise" THEN <<LogRec("ERROR", FALSE)>> ELSE <<>>
    IN  IF ak1.kind = "df" /\ ak1.nrows > 0
        THEN [ret |-> ak1, calls |-> <<etf>>, resp |-> <<ak1>>, log |-> <<>>]
        ELSE IF ak2.kind = "df" /\ ak2.nrows > 0
        THEN [ret |-> ak2, calls |-> <<etf, stock>>, resp |-> <<ak1, ak2>>, log |-> warn]
        ELSE [ret |-> [kind |-> "df", nrows |-> 0],
              calls |-> <<etf, stock>>, resp |-> <<ak1, ak2>>, log |-> warn \o err]

get_realtime_quote_run(code, ak1, ak2, fault) ==
    LET norm_code == normalize_code(code)
        f == fetch_realtime_for_equity_or_etf(norm_code, ak1, ak2)
    IN  IF norm_code = <<>>
        THEN [ret |-> <<ErrorZh, "<enter a valid stock or ETF code>">>,
              calls |-> <<>>, resp |-> <<>>, log |-> LogStart]
        ELSE IF f.ret.nrows = 0
        THEN [ret |-> <<"<no realtime data obtained>">>,
              calls |-> f.calls, resp |-> f.resp, log |-> LogStart \o f.log]
        ELSE IF fault # NoFault
        THEN [ret |-> <<ErrorZh, "<fetching the realtime quote failed>: ">> \o fault.msg,
              calls |-> f.calls, resp |-> f.resp,
              log |-> LogStart \o f.log \o <<LogRec("ERROR", TRUE)>>]
        ELSE [ret |-> format_df_to_markdown(f.ret.nrows).value,
              calls |-> f.calls, resp |-> f.resp, log |-> LogStart \o f.log]

get_realtime_quote(code, ak1, ak2, fault) ==
    Finish("get_realtime_quote", [code |-> code], get_realtime_quote_run(code, ak1, ak2, fault))

-----------------------------------------------------------------------------
(* src/tools/indices.py and src/tools/market_overview.py: the tools that
   call the data source themselves.  The index token is a sequence of
   characters. *)

IndexKeys == {<<"h", "s", "3", "0", "0">>, <<"s", "z", "5", "0">>, <<"z", "z", "5", "0", "0">>}

\* key = (index or "").strip().lower()
index_key(index) == lower(strip(index))

\* The operation of the data source for a key.
index_method(key) ==
    IF key = <<"h", "s", "3", "0", "0">> THEN "get_hs300_stocks"
    ELSE IF key = <<"s", "z", "5", "0">> THEN "get_sz50_stocks"
    ELSE "get_zz500_stocks"

\* The validation that takes the token as it is given.
index_key_is_valid_as_given(index) == index \in IndexKeys

\* key not in {"hs300", "sz50", "zz500"}, negated
index_key_is_valid(index) == index_key(index) \in IndexKeys

\* except Exception as e, the one clause of get_index_constituents,
\* get_stock_industry and list_industries.
get_index_constituents_except(e) ==
    IF isinstance(e, "Exception")
    THEN [ret |-> <<"Error: ", "An unexpected error occurred: ">> \o e.msg,
          log |-> LogRec("ERROR", TRUE)]
    ELSE Propagate(e)

get_index_constituents_run(index, date, limit, format, out, fault) ==
    LET key == index_key(index)
        call == [method |-> index_method(key), kwargs |-> [date |-> date]]
        meta == key \o <<IF date # None THEN date ELSE "latest">>
        rendered == Render(out, fault, format, limit, meta)
    IN  IF ~index_key_is_valid(index)
        THEN [ret |-> <<"Error: ", "Invalid index. Valid options are 'hs300', 'sz50', 'zz500'.">>,
              calls |-> <<>>, resp |-> <<>>, log |-> LogStart]
        ELSE IF out.kind = "raise"
        THEN [ret |-> get_index_constituents_except(out.exc).ret,
              calls |-> <<call>>, resp |-> <<out>>,
              log |-> LogStart \o <<get_index_constituents_except(out.exc).log>>]
        ELSE IF rendered.kind = "raise"
        THEN [ret |-> get_index_constituents_except(rendered.exc).ret,
              calls |-> <<call>>, resp |-> <<out, rendered>>,
              log |-> LogStart \o <<get_index_constituents_except(rendered.exc).log>>]
        ELSE [ret |-> rendered.value,
              calls |-> <<call>>, resp |-> <<out, rendered>>, log |-> LogStart]

get_index_constituents(index, date, limit, format, out, fault) ==
    Finish("get_index_constituents",
           [index |-> index, date |-> date, limit |-> limit, format |-> format],
           get_index_constituents_run(index, date, limit, format, out, fault))

get_stock_industry_run(code, date, limit, format, out, fault) ==
    LET call == [method |-> "get_stock_industry", kwargs |-> [code |-> code, date |-> date]]
        meta == <<IF code # None THEN code ELSE "all", IF date # None THEN date ELSE "latest">>
        rendered == Render(out, fault, format, limit, meta)
    IN  IF out.kind = "raise"
        THEN [ret |-> get_index_constituents_except(out.exc).ret,
              calls |-> <<call>>, resp |-> <<out>>,
              log |-> LogStart \o <<get_index_constituents_except(out.exc).log>>]
        ELSE IF rendered.kind = "raise"
        THEN [ret |-> get_index_constituents_except(rendered.exc).ret,
              calls |-> <<call>>, resp |-> <<out, rendered>>,
              log |-> LogStart \o <<LogRec("INFO", FALSE),
                                    get_index_constituents_except(rendered.exc).log>>]
        ELSE [ret |-> rendered.value,
              calls |-> <<call>>, resp |-> <<out, rendered>>,
              log |-> LogStart \o <<LogRec("INFO", FALSE)>>]

get_stock_industry(code, date, limit, format, out, fault) ==
    Finish("get_stock_industry",
           [code |-> code, date |-> date, limit |-> limit, format |-> format],
           get_stock_industry_run(code, date, limit, format, out, fault))

\* The default cap handed to the renderer.
list_industries_max_rows_default(industries) == DefaultLimit

\* The cap list_industries hands to the renderer: out.shape[0], the number
\* of the rows it renders.
list_industries_max_rows(industries) == industries

\* list_industries: industries is the number of the distinct industries of
\* the table the data source returned.
list_industries_run(date, format, out, industries, fault) ==
    LET call == [method |-> "get_stock_industry", kwargs |-> [code |-> None, date |-> date]]
        meta == <<IF date # None THEN date ELSE "latest", ToString(industries)>>
        rendered == Render([kind |-> "df", nrows |-> industries], fault, format,
                           list_industries_max_rows(industries), meta)
    IN  IF out.kind = "raise"
        THEN [ret |-> get_index_constituents_except(out.exc).ret,
              calls |-> <<call>>, resp |-> <<out>>,
              log |-> LogStart \o <<get_index_constituents_except(out.exc).log>>]
        ELSE IF out.nrows = 0
        THEN [ret |-> <<"(No data available to display)">>,
              calls |-> <<call>>, resp |-> <<out>>, log |-> LogStart]
        ELSE IF rendered.kind = "raise"
        THEN [ret |-> get_index_constituents_except(rendered.exc).ret,
              calls |-> <<call>>, resp |-> <<out, rendered>>,
              log |-> LogStart \o <<get_index_constituents_except(rendered.exc).log>>]
        ELSE [ret |-> rendered.value,
              calls |-> <<call>>, resp |-> <<out, rendered>>, log |-> LogStart]

list_industries(date, format, out, industries, fault) ==
    Finish("list_industries", [date |-> date, format |-> format, industries |-> industries],
           list_industries_run(date, format, out, industries, fault))

\* The tool get_trade_dates of market_overview.py, with the five except
\* clauses of the helpers.
get_trade_dates_tool_run(start_date, end_date, limit, format, out, fault) ==
    LET call == [method |-> "get_trade_dates",
                 kwargs |-> [start_date |-> start_date, end_date |-> end_date]]
        meta == <<IF start_date # None THEN start_date ELSE "default",
                  IF end_date # None THEN end_date ELSE "default">>
        rendered == Render(out, fault, format, limit, meta)
    IN  IF out.kind = "raise"
        THEN [ret |-> call_financial_data_tool_except(out.exc).ret,
              calls |-> <<call>>, resp |-> <<out>>,
              log |-> LogStart \o <<call_financial_data_tool_except(out.exc).log>>]
        ELSE IF rendered.kind = "raise"
        THEN [ret |-> call_financial_data_tool_except(rendered.exc).ret,
              calls |-> <<call>>, resp |-> <<out, rendered>>,
              log |-> LogStart \o <<LogRec("INFO", FALSE),
                                    call_financial_data_tool_except(rendered.exc).log>>]
        ELSE [ret |-> rendered.value,
              calls |-> <<call>>, resp |-> <<out, rendered>>,
              log |-> LogStart \o <<LogRec("INFO", FALSE)>>]

get_trade_dates_tool(start_date, end_date, limit, format, out, fault) ==
    Finish("get_trade_dates",
           [start_date |-> start_date, end_date |-> end_date, limit |-> limit, format |-> format],
           get_trade_dates_tool_run(start_date, end_date, limit, format, out, fault))

-----------------------------------------------------------------------------
(* The specification of the tools: those of the helpers and those that call
   the data source, the ETF provider or AKShare themselves. *)

\* What an operation of the data source can do, a table longer than the
\* default limit included.
ToolOutcomes == MethodOutcomes \cup {[kind |-> "df", nrows |-> DefaultLimit + 1]}

ToolAkOutcomes == AkOutcomes \cup {[kind |-> "df", nrows |-> DefaultLimit + 1]}

IndexTokens ==
    {<<>>, <<"x">>, <<"h", "s", "3", "0">>,
     <<"h", "s", "3", "0", "0">>, <<" ", "H", "S", "3", "0", "0", " ">>,
     <<"S", "z", "5", "0">>, <<"z", "z", "5", "0", "0">>, <<"z", "z", " ", "5", "0", "0">>}

CompareInputs ==
    {<<>>, <<"159919">>, <<"159919", ",">>, <<"159919", ",", "510300">>,
     <<" ", "159919", " ", ",", "510300", " ">>, <<"159919", ",", "159919">>,
     <<"159919", ",", "510300", ",", "159919">>, <<"510300", ",", "512100", ",", "159919">>}

RealtimeCodes == {<<>>, <<" ">>, <<"5", "1">>, <<" ", "s", "h", "6", " ">>, <<"S", "Z", "0">>}

EtfAnalysisTool ==
    Idle /\ \E etf_code \in EtfCodes, ak1 \in AkOutcomes, ak2 \in AkOutcomes, ak3 \in AkOutcomes,
               fault \in ReportFaults :
                 get_etf_analysis_tool(etf_code, ak1, ak2, ak3, fault)

EtfListTool ==
    Idle /\ \E market \in Markets, ak \in ToolAkOutcomes : get_etf_list(market, ak)

CompareEtfs ==
    Idle /\ \E etf_codes \in CompareInputs :
               \E aks \in [1..Len(split(etf_codes)) -> AkOutcomes] : compare_etfs(etf_codes, aks)

RealtimeQuote ==
    Idle /\ \E code \in RealtimeCodes, ak1 \in AkOutcomes, ak2 \in AkOutcomes,
               fault \in ReportFaults :
                 get_realtime_quote(code, ak1, ak2, fault)

IndexConstituents ==
    Idle /\ \E index \in IndexTokens, date \in DateArgs, limit \in Limits,
               format \in FormatTokens, out \in ToolOutcomes, fault \in RenderFaults :
                 get_index_constituents(index, date, limit, format, out, fault)

StockIndustry ==
    Idle /\ \E code \in Codes \cup {None}, date \in DateArgs, limit \in Limits,
               format \in FormatTokens, out \in ToolOutcomes, fault \in RenderFaults :
                 get_stock_industry(code, date, limit, format, out, fault)

ListIndustries ==
    Idle /\ \E date \in DateArgs, format \in FormatTokens, out \in ToolOutcomes,
               fault \in RenderFaults :
               \E industries \in (IF out.kind = "df" /\ out.nrows > 0 THEN {1, out.nrows} ELSE {0}) :
                 list_industries(date, format, out, industries, fault)

TradeDatesTool ==
    Idle /\ \E start_date \in DateArgs, end_date \in DateArgs, limit \in Limits,
               format \in FormatTokens, out \in ToolOutcomes, fault \in RenderFaults :
                 get_trade_dates_tool(start_date, end_date, limit, format, out, fault)

NextTools ==
    \/ Financial \/ Macro \/ IndexConstituent \/ EtfBasicInfo
    \/ EtfAnalysisTool \/ EtfListTool \/ CompareEtfs \/ RealtimeQuote
    \/ IndexConstituents \/ StockIndustry \/ ListIndustries \/ TradeDatesTool
    \/ Respond

SpecTools == Init /\ [][NextTools]_vars

-----------------------------------------------------------------------------
(* The claims about the tools. *)

\* The calls of the provider that failed.
FailedProviderCalls == {i \in 1..Len(calls) : resp[i].kind = "raise"}

\* An error string, English or Chinese.
IsErrorString(s) == Len(s) > 0 /\ s[1] \in {"Error: ", ErrorZh}

\* C21: an invocation of a tool calls the provider at most once, three times
\* one after the other for the composite ETF analysis, and makes no call
\* after one that failed: the failure is classified and returned as an error
\* string.
C21_OneProviderCallNoRetry ==
    op # "none" =>
        /\ Len(calls) <= (IF op = "get_etf_analysis" THEN 3 ELSE 1)
        /\ \A i \in FailedProviderCalls : i = Len(calls) /\ IsErrorString(result)

-----------------------------------------------------------------------------
(* Two invocations of call_financial_data_tool running at the same time,
   each in a worker of its own.  A frame holds the locals of an invocation:
   pc where it is, args its arguments, df what data_source_method returned
   or raised, ret the string it returns.  What the invocations share is the
   data source bound once in mcp_server.py, which they call, and the logger,
   to which they write.  In this specification calls, resp and log hold the
   calls, answers and records of the invocations in flight, each with its
   worker. *)

Workers == {1, 2}

IdleFrame == [pc |-> "idle", args |-> <<>>, df |-> NoneDf, ret |-> <<>>]

ConcurrentArgs ==
    [data_source_method : {"get_profit_data"}, code : Codes,
     year : {<<"2", "0", "2", "3">>, <<"2", "3">>}, quarter : {4},
     limit : Limits, format : {"markdown", "xml"}]

ConcurrentOutcomes ==
    {[kind |-> "df", nrows |-> 1], [kind |-> "df", nrows |-> 3],
     Raise([cls |-> "NoDataFoundError", msg |-> <<"m1">>]),
     Raise([cls |-> "RuntimeError", msg |-> <<"m2">>])}

\* The invocation with arguments a, run alone with out the answer of the
\* data source.
frame_run(a, out) ==
    call_financial_data_tool_run(a.data_source_method, "Profitability", a.code, a.year,
                                 a.quarter, a.limit, a.format, out, NoFault)

\* data_source_method(code=code, year=year, quarter=quarter)
frame_call(a) ==
    [method |-> a.data_source_method,
     kwargs |-> [code |-> a.code, year |-> a.year, quarter |-> a.quarter]]

\* The validation of base.py:44-49 passed.
frame_valid(a) == YearIsValid(a.year) /\ QuarterIsValid(a.quarter)

\* The records r of worker w.
Tagged(w, r) == [i \in 1..Len(r) |-> [worker |-> w, rec |-> r[i]]]

\* df kept in one variable of the module for all the invocations: the answer
\* that came last.
frame_df_of_module(frames, answers, w) == answers[Len(answers)].out

\* df, a local of the invocation.
frame_df(frames, answers, w) == frames[w].df

InitConcurrent ==
    /\ now = BaseDate
    /\ op = "none" /\ args = <<>> /\ cal = {} /\ result = <<>>
    /\ calls = <<>> /\ resp = <<>> /\ log = <<>>
    /\ inflight = [w \in Workers |-> IdleFrame]

\* The invocation starts: the validation, then the call of the data source,
\* on whose answer it blocks.
Enter(w) ==
    /\ inflight[w].pc = "idle"
    /\ \E a \in ConcurrentArgs :
         /\ inflight' = [inflight EXCEPT ![w] =
                IF frame_valid(a)
                THEN [pc |-> "calling", args |-> a, df |-> NoneDf, ret |-> <<>>]
                ELSE [pc |-> "done", args |-> a, df |-> NoneDf, ret |-> frame_run(a, NoneDf).ret]]
         /\ calls' = IF frame_valid(a)
                     THEN Append(calls, [worker |-> w, call |-> frame_call(a)])
                     ELSE calls
         /\ log' = log \o Tagged(w, IF frame_valid(a) THEN LogStart
                                    ELSE frame_run(a, NoneDf).log)
    /\ UNCHANGED <<now, op, args, cal, resp, result>>

\* The data source answers the call of worker w.
Answer(w) ==
    /\ inflight[w].pc = "calling"
    /\ \E out \in ConcurrentOutcomes :
         /\ inflight' = [inflight EXCEPT ![w].pc = "answered", ![w].df = out]
         /\ resp' = Append(resp, [worker |-> w, out |-> out])
    /\ UNCHANGED <<now, op, args, cal, calls, result, log>>

\* The table is rendered, or the exception handled.
RenderFrame(w) ==
    /\ inflight[w].pc = "answered"
    /\ LET r == frame_run(inflight[w].args, frame_df(inflight, resp, w))
       IN  /\ inflight' = [inflight EXCEPT ![w].pc = "done", ![w].ret = r.ret]
           /\ log' = log \o Tagged(w, Tail(r.log))
    /\ UNCHANGED <<now, op, args, cal, calls, resp, result>>

\* The string of worker w is handed to the transport.
Collect(w) ==
    /\ inflight[w].pc = "done"
    /\ op' = "call_financial_data_tool"
    /\ args' = inflight[w].args
    /\ result' = inflight[w].ret
    /\ inflight' = [inflight EXCEPT ![w] = IdleFrame]
    /\ calls' = SelectSeq(calls, LAMBDA c : c.worker # w)
    /\ resp' = SelectSeq(resp, LAMBDA c : c.worker # w)
    /\ log' = SelectSeq(log, LAMBDA c : c.worker # w)
    /\ UNCHANGED <<now, cal>>

NextConcurrent == \E w \in Workers : Enter(w) \/ Answer(w) \/ RenderFrame(w) \/ Collect(w)

SpecConcurrent == InitConcurrent /\ [][NextConcurrent]_vars

\* What the data source answered to the call of worker w.
OwnAnswer(w) == resp[CHOOSE k \in 1..Len(resp) : resp[k].worker = w].out

\* The call worker w made.
OwnCall(w) == calls[CHOOSE k \in 1..Len(calls) : calls[k].worker = w].call

\* C22: whatever the interleaving of two invocations, each returns the
\* string it returns when run alone with the answer the data source gave to
\* its own call, its call carries its own arguments, and the clock the
\* invocations read is left as it was.
C22_InvocationsIndependent ==
    \A w \in DOMAIN inflight :
        /\ now = BaseDate
        /\ inflight[w].pc \in {"calling", "answered"} =>
              OwnCall(w) = frame_call(inflight[w].args)
        /\ inflight[w].pc = "done" =>
              inflight[w].ret =
                  frame_run(inflight[w].args,
                            IF frame_valid(inflight[w].args) THEN OwnAnswer(w) ELSE NoneDf).ret

\* Worker 1 called first and worker 2 was answered first, the one with a
\* table and the other with a failure.
C22_Witness ==
    /\ DOMAIN inflight = Workers
    /\ inflight[1].pc = "done" /\ inflight[2].pc = "done"
    /\ Len(calls) = 2 /\ calls[1].worker = 1
    /\ Len(resp) = 2 /\ resp[1].worker = 2
    /\ IsTable(inflight[1].ret) /\ StartsWithError(inflight[2].ret)

\* The cap of the invocation: its limit, the default when it takes none.
ToolLimit == IF "limit" \in DOMAIN args THEN args.limit ELSE DefaultLimit

\* The rows of the table the data source returned last.
SourceRows == resp[Len(calls)].nrows

\* The rows shown and the total stated by a rendered table.
ShownRows(s) == s[3]
TotalRows(s) == s[5]

FormatRefused ==
    /\ op # "none"
    /\ "format" \in DOMAIN args /\ args.format \notin Formats
    /\ Len(resp) = Len(calls) + 1
    /\ resp[Len(resp)].kind = "raise" /\ resp[Len(resp)].exc.cls = "ValueError"

\* C24: when the renderer refuses a format token other than 'markdown',
\* 'json' and 'csv' with a ValueError, the tool returns the error string of
\* an invalid input, 'Error: Invalid input parameter. ...', and no table.
C24_UnknownFormatIsInvalidInput ==
    FormatRefused =>
        /\ Len(result) >= 2
        /\ result[1] = "Error: " /\ result[2] = "Invalid input parameter. "

\* The tools that call one operation of the data source and handle what it
\* raises.
ClassifyingTools ==
    {"call_financial_data_tool", "call_macro_data_tool", "call_index_constituent_tool",
     "get_etf_basic_info", "get_etf_list", "get_index_constituents", "get_stock_industry",
     "list_industries", "get_trade_dates"}

\* The kind of a failure of the data source.
FailureKind(e) ==
    IF isinstance(e, "NoDataFoundError") THEN "NotFound"
    ELSE IF isinstance(e, "LoginError") THEN "AuthFailure"
    ELSE IF isinstance(e, "DataSourceError") THEN "SourceFailure"
    ELSE IF isinstance(e, "ValueError") THEN "InvalidInput"
    ELSE "Unexpected"

\* The class of error an error string tells the caller, by the text that
\* follows its prefix, English or Chinese.
ErrorClass(s) ==
    IF Len(s) < 2 THEN "NotFound"
    ELSE IF s[2] \in {"Could not connect to data source. ",
                      "<could not connect to the data source>. "} THEN "AuthFailure"
    ELSE IF s[2] \in {"An error occurred while fetching data. ",
                      "<an error occurred while fetching data>. "} THEN "SourceFailure"
    ELSE IF s[2] = "Invalid input parameter. " THEN "InvalidInput"
    ELSE IF s[2] \in {"An unexpected error occurred: ",
                      "<an unexpected error occurred>: "} THEN "Unexpected"
    ELSE "NotFound"

\* C25: a failure of the data source of a given kind (NotFound, AuthFailure,
\* SourceFailure, InvalidInput) is told to the caller as the error of that
\* kind by every tool; none reports it as an unexpected error.
C25_SameClassification ==
    (op \in ClassifyingTools /\ Len(calls) = 1 /\ resp[1].kind = "raise") =>
        /\ IsErrorString(result)
        /\ ErrorClass(result) = FailureKind(resp[1].exc)

IndexConstituentsDone == op = "get_index_constituents"

\* The operation of the data source of each index.
IndexOperation(key) ==
    CASE key = <<"h", "s", "3", "0", "0">> -> "get_hs300_stocks"
      [] key = <<"s", "z", "5", "0">> -> "get_sz50_stocks"
      [] key = <<"z", "z", "5", "0", "0">> -> "get_zz500_stocks"

\* C26: get_index_constituents with an index token that, trimmed and in lower
\* case, is not 'hs300', 'sz50' or 'zz500' returns an error string and calls
\* no operation of the data source; with a valid token it calls exactly one,
\* that of the index, with the date given.
C26_IndexTokenValidation ==
    IndexConstituentsDone =>
        IF lower(strip(args.index)) \in
               {<<"h", "s", "3", "0", "0">>, <<"s", "z", "5", "0">>, <<"z", "z", "5", "0", "0">>}
        THEN /\ Len(calls) = 1
             /\ calls[1] = [method |-> IndexOperation(lower(strip(args.index))),
                            kwargs |-> [date |-> args.date]]
        ELSE /\ calls = <<>>
             /\ StartsWithError(result)

\* ' HS300 ' with a date: get_hs300_stocks is called with that date.
C26_Witness ==
    /\ IndexConstituentsDone
    /\ args.index = <<" ", "H", "S", "3", "0", "0", " ">>
    /\ args.date = "2024-12-31"
    /\ Len(calls) = 1 /\ calls[1].method = "get_hs300_stocks"
    /\ calls[1].kwargs.date = "2024-12-31"

\* The severity of a level of the logging module.
Severity(level) ==
    CASE level = "INFO" -> 20
      [] level = "WARNING" -> 30
      [] level = "ERROR" -> 40
      [] OTHER -> 0

\* The helper ended in an exception, of the data source or of the renderer.
HelperFailed == op \in PipelineHelpers /\ EndedInRaise

\* The except clauses of the helper invoked.
HelperExcept(e) ==
    IF op = "call_financial_data_tool" THEN call_financial_data_tool_except(e)
    ELSE IF op = "call_macro_data_tool" THEN call_macro_data_tool_except(e)
    ELSE call_index_constituent_tool_except(e)

\* The record the except clause wrote.
FailureRecord == log[Len(log)]

\* C27: a helper logs an unclassified exception at a severity strictly higher
\* than that of every classified failure (NotFound, AuthFailure,
\* SourceFailure, InvalidInput).
C27_UnclassifiedLoggedHigher ==
    (HelperFailed /\ Unclassified(LastExc)) =>
        \A e \in Exceptions :
            ~Unclassified(e) =>
                Severity(HelperExcept(e).log.level) < Severity(FailureRecord.level)

\* C27 amended: a helper logs an unclassified exception at the level ERROR
\* with the traceback; a classified failure is logged without traceback, at
\* WARNING for NotFound and InvalidInput and at ERROR, the same level, for
\* AuthFailure and SourceFailure.
C27_UnclassifiedLoggedWithTraceback ==
    HelperFailed =>
        IF Unclassified(LastExc)
        THEN /\ FailureRecord = [level |-> "ERROR", exc_info |-> TRUE]
             /\ \A e \in Exceptions :
                    ~Unclassified(e) =>
                        /\ Severity(HelperExcept(e).log.level) <= Severity(FailureRecord.level)
                        /\ ~HelperExcept(e).log.exc_info
        ELSE /\ ~FailureRecord.exc_info
             /\ FailureRecord.level =
                    (IF FailureKind(LastExc) \in {"NotFound", "InvalidInput"}
                     THEN "WARNING" ELSE "ERROR")

\* A KeyError of the data source under call_macro_data_tool.
C27_Witness ==
    /\ op = "call_macro_data_tool"
    /\ Len(resp) = 1 /\ resp[1].kind = "raise" /\ resp[1].exc.cls = "KeyError"
    /\ FailureRecord = [level |-> "ERROR", exc_info |-> TRUE]

CompareDone == op = "compare_etfs"

\* The codes listed, between the commas and trimmed.
ListedCodes == compare_etfs_codes(args.etf_codes)

\* The rows of the comparison table of a report.
ReportRows(s) == {k \in 1..Len(s) : s[k] = "| "}

\* The report has a failure row for the code.
HasFailureRow(s, code) ==
    \E k \in ReportRows(s) :
        /\ k + Len(code) + 1 <= Len(s)
        /\ SubSeq(s, k + 1, k + Len(code)) = code
        /\ s[k + Len(code) + 1] = " | <data fetch failed>"

\* C28: compare_etfs with fewer than two codes between commas returns an
\* error and calls nothing; otherwise it fetches the basic info of each listed
\* code once, in the order listed, whatever the earlier fetches did, and the
\* report has one row for each listed code, a failure row for each code whose
\* fetch failed.
C28_CompareIsolatesFailures ==
    CompareDone =>
        IF Len(ListedCodes) < 2
        THEN calls = <<>> /\ IsErrorString(result)
        ELSE /\ Len(calls) = Len(ListedCodes)
             /\ \A i \in 1..Len(calls) :
                    calls[i] = [method |-> "get_etf_basic_info",
                                kwargs |-> [etf_code |-> ListedCodes[i]]]
             /\ Cardinality(ReportRows(result)) = Len(ListedCodes)
             /\ \A i \in 1..Len(calls) :
                    resp[i].kind = "raise" => HasFailureRow(result, ListedCodes[i])

\* C29: for every period keyword, the unknown ones too, and every today,
\* the start date of get_market_analysis_timeframe is the first day of a
\* month, is strictly earlier than the end date and lies at least one
\* calendar month before today's month; so the label of a single month is
\* never produced.
C29_StartBeforeThisMonth ==
    TimeframeDone =>
        /\ IsIsoShape(TimeframeStartIso)
        /\ IsoDay(TimeframeStartIso) = 1
        /\ StrLess(TimeframeStartIso, TimeframeEndIso)
        /\ IsoYear(TimeframeStartIso) * 12 + IsoMonth(TimeframeStartIso)
              <= now.year * 12 + now.month - 1
        /\ CountOf(TimeframeLabel, MonthZh) >= 2

\* An unknown keyword on the first day of a year: the start is the first of
\* December of the year before.
C29_Witness ==
    /\ TimeframeDone
    /\ args[1] = "month" /\ now.month = 1 /\ now.day = 1
    /\ IsoYear(TimeframeStartIso) = now.year - 1 /\ IsoMonth(TimeframeStartIso) = 12

\* C30: every result of normalize_stock_code that is no error is 'sh' or
\* 'sz', a dot and six digits, the six digits being those of the argument,
\* and normalize_stock_code applied to it returns it unchanged.
C30_NormalizeIdempotent ==
    (op = "normalize_stock_code" /\ ~StartsWithError(result)) =>
        /\ Len(result) = 9
        /\ SubSeq(result, 1, 2) \in {<<"s", "h">>, <<"s", "z">>}
        /\ result[3] = "."
        /\ IsSixDigits(SubSeq(result, 4, 9))
        /\ SubSeq(result, 4, 9) = SelectSeq(args[1], LAMBDA ch : ch \in DigitChars)
        /\ \A re \in ReModules : normalize_stock_code_run(result, re).ret = result

\* ' 600000.SH ' is normalized to 'sh.600000'.
C30_Witness ==
    /\ op = "normalize_stock_code"
    /\ args[1] = <<" ", "6", "0", "0", "0", "0", "0", ".", "S", "H", " ">>
    /\ result = <<"s", "h", ".", "6", "0", "0", "0", "0", "0">>

====
